---- MODULE Spec2Model ----
(***************************************************************************)
(* A model of LNhelperBot's liquidity chart computation                    *)
(* (liquiditychart/magma_liquidity_chart.py): chunk generation and the     *)
(* knapsack table of knapsack_liquidity, the offer classifier              *)
(* is_tor_restricted, the budget sweep of generate_liquidity_chart and the *)
(* worker pool of get_all_offer_details; and of the bot's watch list and   *)
(* block subscriptions (bot.py): the handlers handle_txid, remove,         *)
(* notifyblocks and stopblocks and the two 15-second jobs                  *)
(* check_confirmations and check_new_block, interleaved at their awaits as *)
(* the single event loop interleaves them.  The state file written by      *)
(* save_state and the read-only commands (/start, /help, /status,          *)
(* /liquiditychart) change nothing the model tracks and are left out.      *)
(*                                                                         *)
(* Python values are modelled as follows.  A dict is a function whose      *)
(* DOMAIN is the dict's key set (a missing key is an absent element of the *)
(* DOMAIN); a list is a sequence, except the table dp, which is a function *)
(* on 0..budget_sats so that its indices are the code's; a str that the    *)
(* code transforms is a sequence of one-character strings.                 *)
(* code transforms is a sequence of one-character strings.  The list      *)
(* objects and watcher dicts of the watch list live in two heaps indexed   *)
(* by object identity, so that two references to one list and a list       *)
(* rebuilt by a comprehension can be told apart; watched_tx is CPython's   *)
(* entry table, whose deleted entries stay as dummies until it is rebuilt. *)
(***************************************************************************)
EXTENDS Integers, Sequences, FiniteSets

VARIABLES
    \* knapsack_liquidity(budget_sats, offers)
    budget_sats,    \* the argument budget_sats
    offers,         \* the argument offers (a list of dicts)
    chunks,         \* the local list chunks
    dp,             \* the local table dp
    i,              \* the outer loop index (1-based), line 127
    b,              \* the inner loop index, line 129
    pc,             \* "start", "dp", "done" or "raised"
    max_liq,        \* the returned max_liq
    total_cost,     \* the returned total_cost
    seller_orders,  \* the returned seller_orders
    picked,         \* history: for each cell, the chunk indices its value was built from
    selected,       \* history: picked[] of the cell that max() returned
    \* chunk generation of one offer (knapsack_liquidity lines 108-123)
    gen_offer,      \* the offer
    gen_amboss,     \* the argument include_amboss_fee
    gen_chunks,     \* the chunks appended for the offer
    gen_pc,         \* "start" or "done"
    \* is_tor_restricted(offer)
    cls_offer,      \* the argument offer
    cls_result,     \* the returned value
    cls_pc,         \* "start" or "done"
    \* get_all_offer_details(offer_ids)
    offer_ids,      \* the argument offer_ids
    fut,            \* each submitted future: "pending", "running" or "finished"
    fut_result,     \* each finished future's result
    yielded,        \* the futures as_completed has yielded
    fetched,        \* the local list offers
    fetch_pc,       \* "submit", "collect" or "returned"
    response,       \* history: what the request of each offer id met
    \* generate_liquidity_chart from line 207 on
    sw_offers,              \* the local list offers
    usd_per_sat,            \* btc_usd / 100_000_000
    offers_tor_sorted,
    offers_clearnet_sorted,
    sw_i,                   \* the index into budgets_usd_coarse (1-based)
    y_tor_coarse,
    y_clearnet_coarse,
    costs_tor_coarse,
    costs_clearnet_coarse,
    key_i,                  \* the index into key_budgets (1-based), line 259
    annotations,            \* the annotations drawn by plt.annotate
    sw_pc,                  \* "start", "sweep", "render", "saved", "raised"
                            \* or "zero_division"
    \* bot.py: the watch list, handle_txid, remove and check_confirmations
    watched_tx,     \* the dict watched_tx: its entry table, slots in insertion order
    lists,          \* the list objects the dict's values refer to: id -> watcher ids
    watcher_objs,   \* the watcher dicts: id -> [chat_id, notified]; history: sent,
                    \* the number of send_message calls made for the dict
    confs,          \* the chain: the confirmations of each transaction
    h_pc,           \* the handler: "idle", "txid_reply" or "final_reply"
    h_chat,         \* its chat_id
    h_txid,         \* its txid, once the text is known to be one
    h_msg,          \* the reply it is sending
    job_pc,         \* check_confirmations: "idle", "for", "inner", "await_send"
                    \* or "remove"
    to_remove,      \* its local to_remove
    it_used,        \* the dict iterator: the dict's size when it was created,
    it_pos,         \* the next slot it looks at,
    it_len,         \* the items it still expects
    job_txid,       \* the loop variable txid
    job_watchers,   \* the loop variable watchers, a reference to a list
    w_pos,          \* the list iterator's index (1-based)
    job_exc,        \* the exception that ended the last pass, or "none"
    commands,       \* the updates handled so far
    failures,       \* the requests and sends that failed so far
    delivered,      \* history: the <<chat_id, txid>> a 6-confirmation message reached
    stopped,        \* history: the <<chat_id, txid>> answered "Stopped monitoring"
                    \* and not submitted again
    start_keys,     \* history: the keys of watched_tx when the pass started
    visited,        \* history: the keys the pass has visited
    \* bot.py: notifyblocks, stopblocks and check_new_block
    block_notify_users,
    last_block_height,
    chain_height,   \* the chain: its height
    bjob_pc,        \* check_new_block: "idle", "for" or "await_send"
    current_height, \* its local current_height
    sit_used,       \* the set iterator: the set's size when it was created,
    sit_pos,        \* the next slot it looks at (while a send is awaited, the
                    \* slot of the chat the message goes to)
    bh_pc,          \* the handler: "idle" or "reply"
    block_commands, \* the updates handled so far
    block_failures, \* the requests and sends that failed so far
    block_sent,     \* history: the heights each chat was sent, in order
    owed            \* history: the <<chat_id, height>> of the blocks found since
                    \* the chat subscribed

knapVars == <<budget_sats, offers, chunks, dp, i, b, pc, max_liq, total_cost,
              seller_orders, picked, selected>>

genVars == <<gen_offer, gen_amboss, gen_chunks, gen_pc>>

clsVars == <<cls_offer, cls_result, cls_pc>>

fetchVars == <<offer_ids, fut, fut_result, yielded, fetched, fetch_pc, response>>

sweepVars == <<sw_offers, usd_per_sat, offers_tor_sorted, offers_clearnet_sorted,
               sw_i, y_tor_coarse, y_clearnet_coarse, costs_tor_coarse,
               costs_clearnet_coarse, key_i, annotations, sw_pc>>

watchVars == <<watched_tx, lists, watcher_objs, confs, h_pc, h_chat, h_txid, h_msg,
               job_pc, to_remove, it_used, it_pos, it_len, job_txid, job_watchers,
               w_pos, job_exc, commands, failures, delivered, stopped, start_keys,
               visited>>

blockVars == <<block_notify_users, last_block_height, chain_height, bjob_pc,
               current_height, sit_used, sit_pos, bh_pc, block_commands,
               block_failures, block_sent, owed>>

vars == <<knapVars, genVars, clsVars, fetchVars, sweepVars, watchVars, blockVars>>

----------------------------------------------------------------------------
(* Bounds of the model *)

MaxOffers == 3
MaxBudget == 4
MaxConds == 2
MaxIds == 4
MaxCommands == 3
MaxFailures == 1
MaxBlocks == 2

----------------------------------------------------------------------------
(* Python helpers *)

\* dict.get(k, default)
Get(d, k, default) == IF k \in DOMAIN d THEN d[k] ELSE default

\* list index normalisation: a negative index counts from the end
PyIndex(n, k) == IF k < 0 THEN k + n ELSE k

\* the empty dict
EmptyDict == [k \in {} |-> 0]

RECURSIVE SumOver(_, _)
\* sum of f[x] over the finite set S
SumOver(S, f) ==
    IF S = {} THEN 0
    ELSE LET x == CHOOSE y \in S : TRUE IN f[x] + SumOver(S \ {x}, f)

----------------------------------------------------------------------------
(* Chunk generation, knapsack_liquidity lines 107-123 *)

PpmScale == 1000000

\* the fields read with offer['...'] and int(): a missing key raises KeyError
\* (a value int() cannot convert raises ValueError/TypeError on the same
\* lines and propagates the same way; it is modelled by the missing key)
NumericFields == {"min_size", "max_size", "base_fee", "fee_rate"}

OfferRaises(offer) == \E f \in NumericFields : f \notin DOMAIN offer

\* lines 113-116: cost of one chunk.  int() of a non-negative float is its
\* floor; the products of the model are far below 2^53, where the float
\* quotient is exact enough for the floor to be the integer quotient.
OfferCost(offer, include_amboss_fee) ==
    LET amboss_fee_rate == IF include_amboss_fee
                           THEN Get(offer, "amboss_fee_rate", 0) ELSE 0
        total_ppm == offer.fee_rate + amboss_fee_rate
        fee_sats  == (offer.min_size * total_ppm) \div PpmScale
    IN  offer.base_fee + fee_sats

\* (mutation of MaxChunks: allow_parallel is not consulted)
MaxChunksUncapped(offer) == offer.max_size \div offer.min_size

\* lines 118-121
MaxChunks(offer) ==
    LET allow_parallel == Get(offer, "allow_parallel", FALSE)
        max_chunks     == offer.max_size \div offer.min_size
    IN  IF ~allow_parallel
        THEN (IF max_chunks < 1 THEN max_chunks ELSE 1)
        ELSE max_chunks

\* lines 122-123: the chunks one offer appends
OfferChunks(offer, include_amboss_fee) ==
    [k \in 1..MaxChunks(offer) |->
        [cost      |-> OfferCost(offer, include_amboss_fee),
         liquidity |-> offer.min_size,
         account   |-> Get(offer, "account", "unknown")]]

RECURSIVE MakeChunks(_, _)
\* lines 107-123: the chunk list of a list of offers none of which raises
MakeChunks(offs, include_amboss_fee) ==
    IF offs = <<>> THEN <<>>
    ELSE OfferChunks(Head(offs), include_amboss_fee)
            \o MakeChunks(Tail(offs), include_amboss_fee)

ChunksRaise(offs) == \E k \in 1..Len(offs) : OfferRaises(offs[k])

----------------------------------------------------------------------------
(* The table, knapsack_liquidity lines 125-136 *)

\* (mutation of InitCell: cells start at a sentinel below every liquidity)
InitCellSentinel == [liq |-> -1, orders |-> EmptyDict]

\* line 126: one cell (0, {})
InitCell == [liq |-> 0, orders |-> EmptyDict]

\* line 126
InitDp(budget) == [c \in 0..budget |-> InitCell]

\* (mutation of RangeStop: the range runs one index too far)
RangeStopOffByOne(chunk) == chunk.cost - 2

\* line 129: the stop of range(budget_sats, chunk['cost'] - 1, -1)
RangeStop(chunk) == chunk.cost - 1

\* line 134: new_orders[account] = new_orders.get(account, 0) + 1
AddOrder(orders, account) ==
    [a \in DOMAIN orders \cup {account} |->
        IF a = account THEN Get(orders, account, 0) + 1 ELSE orders[a]]

\* (mutation of Improves: the candidate is compared with its predecessor)
ImprovesAlways(new_liq, cell) == new_liq > new_liq - 1

\* line 132: the test that lets a candidate replace a cell
Improves(new_liq, cell) == new_liq > cell.liq

\* lines 130-135: the inner loop's body at index bb
DpBody(table, chunk, bb) ==
    LET n        == Cardinality(DOMAIN table)
        prev     == table[PyIndex(n, bb - chunk.cost)]
        new_liq  == prev.liq + chunk.liquidity
        cur      == PyIndex(n, bb)
    IN  IF Improves(new_liq, table[cur])
        THEN [table EXCEPT ![cur] =
                [liq |-> new_liq, orders |-> AddOrder(prev.orders, chunk.account)]]
        ELSE table

RECURSIVE ChunkPass(_, _, _)
\* lines 129-135: the inner loop from index bb down
\* (the body assigns a cell in place: the table keeps its length)
ChunkPass(table, chunk, bb) ==
    IF bb <= RangeStop(chunk) THEN table
    ELSE LET next == DpBody(table, chunk, bb)
         IN  CASE DOMAIN next = DOMAIN table -> ChunkPass(next, chunk, bb - 1)

RECURSIVE AllPasses(_, _, _, _)
\* lines 127-135: the outer loop from chunk k on
AllPasses(table, chs, k, budget) ==
    IF k > Len(chs) THEN table
    ELSE AllPasses(ChunkPass(table, chs[k], budget), chs, k + 1, budget)

\* (mutation of FirstMax: the scan keeps the last maximal element)
LastMax(table) ==
    CHOOSE c \in DOMAIN table :
        /\ \A d \in DOMAIN table : table[d].liq <= table[c].liq
        /\ \A d \in DOMAIN table : d > c => table[d].liq < table[c].liq

\* line 136: max(dp, key=lambda x: x[0]) returns the first maximal element
FirstMax(table) ==
    CHOOSE c \in DOMAIN table :
        /\ \A d \in DOMAIN table : table[d].liq <= table[c].liq
        /\ \A d \in DOMAIN table : d < c => table[d].liq < table[c].liq

\* lines 139-142: the cost of the first chunk of the account, times n
FirstCostOf(chs, acct) ==
    LET first == CHOOSE k \in 1..Len(chs) :
                    /\ chs[k].account = acct
                    /\ \A j \in 1..(k - 1) : chs[j].account # acct
    IN  chs[first].cost

\* lines 137-142
TotalCost(chs, orders) ==
    SumOver(DOMAIN orders,
            [a \in DOMAIN orders |->
                IF \E k \in 1..Len(chs) : chs[k].account = a
                THEN FirstCostOf(chs, a) * orders[a] ELSE 0])

\* knapsack_liquidity as a function of its arguments (no offer raises)
KnapsackLiquidity(budget, offs, include_amboss_fee) ==
    LET chs   == MakeChunks(offs, include_amboss_fee)
        table == AllPasses(InitDp(budget), chs, 1, budget)
        best  == table[FirstMax(table)]
    IN  [max_liq       |-> best.liq,
         total_cost    |-> TotalCost(chs, best.orders),
         seller_orders |-> best.orders]

----------------------------------------------------------------------------
(* Inputs of the knapsack specification *)

\* offers as the Amboss API describes them, with sizes of a million sats
\* and fee rates of a few ppm so that the costs stay within MaxBudget
OfferCatalogue ==
    { [account |-> "A", min_size |-> 1000000, max_size |-> 1000000,
       base_fee |-> 1, fee_rate |-> 0, amboss_fee_rate |-> 0],
      [account |-> "A", min_size |-> 2000000, max_size |-> 5000000,
       base_fee |-> 1, fee_rate |-> 1, amboss_fee_rate |-> 0,
       allow_parallel |-> TRUE],
      [account |-> "B", min_size |-> 3000000, max_size |-> 4000000,
       base_fee |-> 0, fee_rate |-> 0, amboss_fee_rate |-> 1,
       allow_parallel |-> TRUE],
      [account |-> "B", min_size |-> 1000000, max_size |-> 3000000,
       base_fee |-> 0, fee_rate |-> 0,
       allow_parallel |-> FALSE],
      [min_size |-> 4000000, max_size |-> 4000000,
       base_fee |-> 2, fee_rate |-> 0, amboss_fee_rate |-> 0],
      [account |-> "B", max_size |-> 1000000,
       base_fee |-> 1, fee_rate |-> 0, amboss_fee_rate |-> 0] }

OfferLists(S, n) == UNION { [1..k -> S] : k \in 0..n }

----------------------------------------------------------------------------
(* knapsack_liquidity as a state machine *)

\* a function that is not running: its variables rest
KnapIdle ==
    /\ budget_sats = 0
    /\ offers = <<>>
    /\ chunks = <<>>
    /\ dp = <<>>
    /\ i = 0
    /\ b = 0
    /\ pc = "idle"
    /\ max_liq = 0
    /\ total_cost = 0
    /\ seller_orders = EmptyDict
    /\ picked = <<>>
    /\ selected = {}

GenIdle ==
    /\ gen_offer = EmptyDict
    /\ gen_amboss = TRUE
    /\ gen_chunks = <<>>
    /\ gen_pc = "idle"

ClsIdle ==
    /\ cls_offer = EmptyDict
    /\ cls_result = FALSE
    /\ cls_pc = "idle"

SweepIdle ==
    /\ sw_offers = <<>>
    /\ usd_per_sat = 1
    /\ offers_tor_sorted = <<>>
    /\ offers_clearnet_sorted = <<>>
    /\ sw_i = 0
    /\ y_tor_coarse = <<>>
    /\ y_clearnet_coarse = <<>>
    /\ costs_tor_coarse = <<>>
    /\ costs_clearnet_coarse = <<>>
    /\ key_i = 0
    /\ annotations = {}
    /\ sw_pc = "idle"

FetchIdle ==
    /\ offer_ids = <<>>
    /\ fut = EmptyDict
    /\ fut_result = EmptyDict
    /\ yielded = {}
    /\ fetched = <<>>
    /\ fetch_pc = "idle"
    /\ response = EmptyDict

WatchIdle ==
    /\ watched_tx = <<>>
    /\ lists = EmptyDict
    /\ watcher_objs = EmptyDict
    /\ confs = EmptyDict
    /\ h_pc = "off"
    /\ h_chat = 0
    /\ h_txid = <<>>
    /\ h_msg = ""
    /\ job_pc = "off"
    /\ to_remove = <<>>
    /\ it_used = 0
    /\ it_pos = 0
    /\ it_len = 0
    /\ job_txid = <<>>
    /\ job_watchers = 0
    /\ w_pos = 0
    /\ job_exc = "none"
    /\ commands = 0
    /\ failures = 0
    /\ delivered = {}
    /\ stopped = {}
    /\ start_keys = {}
    /\ visited = {}

BlockIdle ==
    /\ block_notify_users = {}
    /\ last_block_height = [none |-> TRUE]
    /\ chain_height = 0
    /\ bjob_pc = "off"
    /\ current_height = 0
    /\ sit_used = 0
    /\ sit_pos = 0
    /\ bh_pc = "off"
    /\ block_commands = 0
    /\ block_failures = 0
    /\ block_sent = EmptyDict
    /\ owed = {}

Init ==
    /\ WatchIdle
    /\ BlockIdle
    /\ SweepIdle
    /\ GenIdle
    /\ ClsIdle
    /\ FetchIdle
    /\ budget_sats \in 0..MaxBudget
    /\ offers \in OfferLists(OfferCatalogue, MaxOffers)
    /\ chunks = <<>>
    /\ dp = <<>>
    /\ i = 0
    /\ b = 0
    /\ pc = "start"
    /\ max_liq = 0
    /\ total_cost = 0
    /\ seller_orders = EmptyDict
    /\ picked = <<>>
    /\ selected = {}

\* lines 107-126: the chunk list and the table; an offer without a numeric
\* field raises out of the function
GenChunks ==
    /\ pc = "start"
    /\ IF ChunksRaise(offers)
       THEN /\ pc' = "raised"
            /\ UNCHANGED <<chunks, dp, i, b, picked>>
       ELSE /\ chunks' = MakeChunks(offers, TRUE)
            /\ dp' = InitDp(budget_sats)
            /\ picked' = [c \in 0..budget_sats |-> {}]
            /\ i' = 1
            /\ b' = budget_sats
            /\ pc' = "dp"
    /\ UNCHANGED <<budget_sats, offers, max_liq, total_cost, seller_orders, selected>>
    /\ UNCHANGED <<genVars, clsVars, fetchVars, sweepVars, watchVars, blockVars>>

\* lines 130-135: one iteration of the inner loop
DpCell ==
    /\ pc = "dp"
    /\ i <= Len(chunks)
    /\ b > RangeStop(chunks[i])
    /\ dp' = DpBody(dp, chunks[i], b)
    /\ picked' = IF dp' # dp
                 THEN LET n == budget_sats + 1
                      IN  [picked EXCEPT ![PyIndex(n, b)] =
                              picked[PyIndex(n, b - chunks[i].cost)] \cup {i}]
                 ELSE picked
    /\ b' = b - 1
    /\ UNCHANGED <<budget_sats, offers, chunks, i, pc, max_liq, total_cost,
                   seller_orders, selected>>
    /\ UNCHANGED <<genVars, clsVars, fetchVars, sweepVars, watchVars, blockVars>>

\* lines 127-129: the inner range is exhausted, the next chunk starts
NextChunk ==
    /\ pc = "dp"
    /\ i <= Len(chunks)
    /\ b <= RangeStop(chunks[i])
    /\ i' = i + 1
    /\ b' = budget_sats
    /\ UNCHANGED <<budget_sats, offers, chunks, dp, pc, max_liq, total_cost,
                   seller_orders, picked, selected>>
    /\ UNCHANGED <<genVars, clsVars, fetchVars, sweepVars, watchVars, blockVars>>

\* lines 136-143: the best cell, the recomputed cost, the return
Finish ==
    /\ pc = "dp"
    /\ i > Len(chunks)
    /\ LET best == FirstMax(dp)
       IN  /\ max_liq' = dp[best].liq
           /\ seller_orders' = dp[best].orders
           /\ total_cost' = TotalCost(chunks, dp[best].orders)
           /\ selected' = picked[best]
    /\ pc' = "done"
    /\ UNCHANGED <<budget_sats, offers, chunks, dp, i, b, picked>>
    /\ UNCHANGED <<genVars, clsVars, fetchVars, sweepVars, watchVars, blockVars>>

Next == GenChunks \/ DpCell \/ NextChunk \/ Finish

Spec == Init /\ [][Next]_vars

----------------------------------------------------------------------------
(* Properties of knapsack_liquidity *)

ChunkIndices == 1..Len(chunks)

SubsetCost(S) == SumOver(S, [k \in S |-> chunks[k].cost])

SubsetLiquidity(S) == SumOver(S, [k \in S |-> chunks[k].liquidity])

\* the allocation a set of chunks amounts to: account -> number of chunks
SubsetOrders(S) ==
    [a \in {chunks[k].account : k \in S} |->
        Cardinality({k \in S : chunks[k].account = a})]

\* brute force: the best liquidity of any chunk subset within the budget
BruteForceMax(budget) ==
    LET feasible == {S \in SUBSET ChunkIndices : SubsetCost(S) <= budget}
    IN  CHOOSE m \in {SubsetLiquidity(S) : S \in feasible} :
            \A S \in feasible : SubsetLiquidity(S) <= m

\* C1: the returned max_liq is the maximum summed liquidity over all subsets of
\* the generated chunks whose summed cost is within the budget.
C1_MaxLiquidityIsBruteForce ==
    pc = "done" => max_liq = BruteForceMax(budget_sats)

\* C1 witness: a solve over at least three chunks that do not all fit, in which
\* two or more chunks are combined.
C1_Witness ==
    /\ pc = "done"
    /\ Len(chunks) >= 3
    /\ SubsetCost(ChunkIndices) > budget_sats
    /\ Cardinality(selected) >= 2
    /\ max_liq = SubsetLiquidity(selected)

\* C2 (as claimed): the returned total_cost is the summed cost of the chunks
\* selected for the returned max_liq, and so never exceeds budget_sats.
C2_TotalCostIsSelectedCost ==
    pc = "done" => /\ total_cost = SubsetCost(selected)
                   /\ total_cost <= budget_sats

\* C3 (as claimed): with budget 0 the result is (0, 0, {}) whatever the chunks.
C3_ZeroBudgetReturnsNothing ==
    (pc = "done" /\ budget_sats = 0)
        => (max_liq = 0 /\ total_cost = 0 /\ seller_orders = EmptyDict)

ZeroCostChunks == {k \in ChunkIndices : chunks[k].cost = 0}

\* C3 (amended): with budget 0 the result selects exactly the chunks of cost 0:
\* max_liq is their summed liquidity and seller_orders counts them per account;
\* when no chunk has cost 0 the result is (0, 0, {}).
C3_ZeroBudgetSelectsFreeChunks ==
    (pc = "done" /\ budget_sats = 0)
        => /\ max_liq = SubsetLiquidity(ZeroCostChunks)
           /\ seller_orders = SubsetOrders(ZeroCostChunks)
           /\ ZeroCostChunks = {} =>
                (max_liq = 0 /\ total_cost = 0 /\ seller_orders = EmptyDict)

\* C3 witness: a budget-0 solve over chunks of cost 0 and chunks of cost > 0.
C3_Witness ==
    /\ pc = "done"
    /\ budget_sats = 0
    /\ ZeroCostChunks # {}
    /\ ZeroCostChunks # ChunkIndices
    /\ max_liq > 0

\* C4: for the same offers, a budget b1 <= budget_sats never yields more
\* liquidity than budget_sats does.
C4_MonotoneInBudget ==
    pc = "done" =>
        \A b1 \in 0..budget_sats :
            KnapsackLiquidity(b1, offers, TRUE).max_liq <= max_liq

\* C4 witness: a solve for which a smaller positive budget yields strictly
\* less, but some, liquidity.
C4_Witness ==
    /\ pc = "done"
    /\ \E b1 \in 1..budget_sats :
          LET r == KnapsackLiquidity(b1, offers, TRUE).max_liq
          IN  0 < r /\ r < max_liq

\* C6: with an empty offer list the result is (0, 0, {}) for every budget.
C6_EmptyOffers ==
    (pc = "done" /\ offers = <<>>)
        => (max_liq = 0 /\ total_cost = 0 /\ seller_orders = EmptyDict)

\* C6 witness: a completed solve of no offers under a positive budget.
C6_Witness ==
    /\ pc = "done"
    /\ offers = <<>>
    /\ budget_sats > 0
    /\ chunks = <<>>

\* the outer loop stands between two chunks: chunks 1..i-1 have passed over
\* the whole table and chunk i has not started
PrefixProcessed == pc = "dp" /\ b = budget_sats

\* the chunks of the processed prefix
Prefix == 1..(i - 1)

\* C15: after any prefix of the chunk list, every cell dp[c] is realised by a
\* set of distinct chunks of that prefix: the set costs at most c, its summed
\* liquidity is the cell's liquidity and its per-account counts are the cell's
\* allocation, so no chunk is counted twice and no account is allocated more
\* chunks than the prefix generated for it.
C15_CellsRealisedByPrefix ==
    PrefixProcessed =>
        \A c \in 0..budget_sats :
            /\ picked[c] \subseteq Prefix
            /\ SubsetCost(picked[c]) <= c
            /\ SubsetLiquidity(picked[c]) = dp[c].liq
            /\ SubsetOrders(picked[c]) = dp[c].orders
            /\ \A a \in DOMAIN dp[c].orders :
                  dp[c].orders[a] <=
                      Cardinality({k \in Prefix : chunks[k].account = a})

\* C15 witness: a proper prefix of two or more chunks has been processed, one
\* cell combines two chunks of one account and one cell's chunks cost less
\* than the cell's index.
C15_Witness ==
    /\ PrefixProcessed
    /\ 3 <= i /\ i <= Len(chunks)
    /\ \E c \in 0..budget_sats :
          \E k, l \in picked[c] : k # l /\ chunks[k].account = chunks[l].account
    /\ \E c \in 0..budget_sats :
          picked[c] # {} /\ SubsetCost(picked[c]) < c


\* C16: after each complete pass of one chunk the cell liquidities are
\* non-decreasing in the budget index, and the maximum the full-table scan
\* returns is the liquidity of the last cell, dp[budget_sats].
C16_TableNonDecreasing ==
    /\ PrefixProcessed =>
          \A c, d \in 0..budget_sats : c <= d => dp[c].liq <= dp[d].liq
    /\ pc = "done" => max_liq = dp[budget_sats].liq

\* C16 witness: a finished solve whose table rises strictly at some index and
\* is level at another, the scan's maximum standing in a cell before the last.
C16_Witness ==
    /\ pc = "done"
    /\ \E c \in 1..budget_sats : dp[c - 1].liq < dp[c].liq
    /\ \E c \in 1..budget_sats : 0 < dp[c - 1].liq /\ dp[c - 1].liq = dp[c].liq
    /\ FirstMax(dp) < budget_sats
    /\ max_liq = dp[budget_sats].liq


\* the candidate the inner loop's body computes for cell c from chunk k
CandidateLiquidity(c, k) == dp[c - chunks[k].cost].liq + chunks[k].liquidity

\* C17: while chunks are processed no cell's liquidity decreases from one step
\* to the next, a cell changes only to a strictly greater liquidity, and when
\* the candidate of the current chunk equals the cell's liquidity the cell
\* keeps its allocation, which lower-index chunks built.
C17_OverwriteOnlyIfGreater ==
    [][(pc = "dp" /\ pc' = "dp") =>
          /\ \A c \in 0..budget_sats :
                /\ dp'[c].liq >= dp[c].liq
                /\ dp'[c] # dp[c] => dp'[c].liq > dp[c].liq
          /\ (b' = b - 1 /\ CandidateLiquidity(b, i) = dp[b].liq) =>
                /\ dp'[b] = dp[b]
                /\ picked'[b] = picked[b]
                /\ picked'[b] \subseteq 1..(i - 1)]_vars

\* C17 witness: the inner loop has just left a cell c untouched although
\* chunk i offered the cell's own positive liquidity with another allocation.
C17_Witness ==
    /\ pc = "dp"
    /\ i \in 1..Len(chunks)
    /\ b < budget_sats
    /\ LET c == b + 1
       IN  /\ 0 < chunks[i].cost /\ chunks[i].cost <= c
           /\ dp[c].liq > 0
           /\ CandidateLiquidity(c, i) = dp[c].liq
           /\ i \notin picked[c]
           /\ AddOrder(dp[c - chunks[i].cost].orders, chunks[i].account)
                  # dp[c].orders


\* the lowest index whose cell holds the table's maximum liquidity
LowestMaxIndex ==
    CHOOSE m \in 0..budget_sats :
        /\ \A d \in 0..budget_sats : dp[d].liq <= dp[m].liq
        /\ \A d \in 0..(m - 1) : dp[d].liq < dp[m].liq

\* the chunk subsets within the budget that attain the liquidity liq
Attaining(liq) ==
    {S \in SUBSET ChunkIndices :
        SubsetCost(S) <= budget_sats /\ SubsetLiquidity(S) = liq}

\* C18: the returned allocation is that of the lowest-index cell attaining
\* the maximum liquidity, the chunks it selects cost exactly that index, and
\* no chunk subset within the budget attains the maximum at a lower cost.
C18_CheapestMaximum ==
    pc = "done" =>
        /\ max_liq = dp[LowestMaxIndex].liq
        /\ seller_orders = dp[LowestMaxIndex].orders
        /\ seller_orders = SubsetOrders(selected)
        /\ SubsetCost(selected) = LowestMaxIndex
        /\ selected \in Attaining(max_liq)
        /\ \A S \in Attaining(max_liq) : SubsetCost(selected) <= SubsetCost(S)

\* C18 witness: a finished solve in which another subset within the budget
\* attains the maximum at a strictly higher cost and with another allocation,
\* and the budget is not used up.
C18_Witness ==
    /\ pc = "done"
    /\ max_liq > 0
    /\ SubsetCost(selected) < budget_sats
    /\ \E S \in Attaining(max_liq) :
          /\ SubsetCost(S) > SubsetCost(selected)
          /\ SubsetOrders(S) # seller_orders


----------------------------------------------------------------------------
(* Chunk generation of a single offer *)

\* offers with 0 < min_size <= max_size; amboss_fee_rate, account and
\* allow_parallel may be missing, as .get() allows.  (TLC's integers are
\* 32-bit while Python's are unbounded: the sizes and rates keep every
\* product below 2^31.)
GenSizes ==
    {<<mn, mx>> \in {1, 100, 1000000, 2500000}
                        \X {1, 5, 100, 250, 1000000, 5000000, 7000000} :
        mn <= mx /\ mx <= 7 * mn}

GenOptional ==
    { EmptyDict,
      [amboss_fee_rate |-> 0], [amboss_fee_rate |-> 500],
      [account |-> "A"],
      [account |-> "A", amboss_fee_rate |-> 500],
      [allow_parallel |-> TRUE], [allow_parallel |-> FALSE],
      [account |-> "A", allow_parallel |-> TRUE],
      [account |-> "B", allow_parallel |-> FALSE, amboss_fee_rate |-> 500],
      [account |-> "B", allow_parallel |-> TRUE, amboss_fee_rate |-> 500] }

\* the dict d updated with the items of e
Merge(d, e) ==
    [k \in DOMAIN d \cup DOMAIN e |-> IF k \in DOMAIN e THEN e[k] ELSE d[k]]

GenOffers ==
    { Merge([min_size |-> sz[1], max_size |-> sz[2],
             base_fee |-> bf, fee_rate |-> fr], opt) :
        sz \in GenSizes, bf \in {0, 1, 7}, fr \in {0, 1, 300}, opt \in GenOptional }

InitGen ==
    /\ WatchIdle
    /\ BlockIdle
    /\ SweepIdle
    /\ KnapIdle
    /\ ClsIdle
    /\ FetchIdle
    /\ gen_offer \in GenOffers
    /\ gen_amboss \in BOOLEAN
    /\ gen_chunks = <<>>
    /\ gen_pc = "start"

\* lines 108-123 for a list holding the one offer
GenerateChunks ==
    /\ gen_pc = "start"
    /\ gen_chunks' = MakeChunks(<<gen_offer>>, gen_amboss)
    /\ gen_pc' = "done"
    /\ UNCHANGED <<gen_offer, gen_amboss, knapVars, clsVars, fetchVars, sweepVars, watchVars, blockVars>>

NextGen == GenerateChunks

SpecGen == InitGen /\ [][NextGen]_vars

\* floor(x / y) stated by its defining inequalities
IsFloorOf(q, x, y) == q * y <= x /\ x < (q + 1) * y

\* C9: an offer with 0 < min_size <= max_size yields floor(max_size / min_size)
\* chunks when allow_parallel is true and one chunk when it is false (or not
\* given); every chunk has liquidity min_size, the offer's account ('unknown'
\* when the offer names none) and cost base_fee + floor(min_size * totalPpm /
\* 1_000_000), totalPpm being fee_rate plus, when included, amboss_fee_rate.
C9_ChunkCountAndCost ==
    gen_pc = "done" =>
        LET o        == gen_offer
            parallel == "allow_parallel" \in DOMAIN o /\ o.allow_parallel
            amboss   == IF gen_amboss /\ "amboss_fee_rate" \in DOMAIN o
                        THEN o.amboss_fee_rate ELSE 0
            totalPpm == o.fee_rate + amboss
            acct     == IF "account" \in DOMAIN o THEN o.account ELSE "unknown"
        IN  /\ parallel => IsFloorOf(Len(gen_chunks), o.max_size, o.min_size)
            /\ ~parallel => Len(gen_chunks) = 1
            /\ \A k \in 1..Len(gen_chunks) :
                  /\ gen_chunks[k].liquidity = o.min_size
                  /\ gen_chunks[k].account = acct
                  /\ IsFloorOf(gen_chunks[k].cost - o.base_fee,
                               o.min_size * totalPpm, PpmScale)

\* C9 witness: a parallel offer whose max_size is not a multiple of its
\* min_size has yielded two or more chunks (fewer than max_size / min_size
\* rounded up) whose cost includes a ppm fee.
C9_Witness ==
    /\ gen_pc = "done"
    /\ Get(gen_offer, "allow_parallel", FALSE)
    /\ Len(gen_chunks) >= 2
    /\ Len(gen_chunks) * gen_offer.min_size < gen_offer.max_size
    /\ gen_chunks[1].cost > gen_offer.base_fee

----------------------------------------------------------------------------
(* is_tor_restricted, lines 151-161 *)

LowerLetters == <<"a", "b", "c", "d", "e", "f", "g", "h", "i", "j", "k", "l", "m",
                  "n", "o", "p", "q", "r", "s", "t", "u", "v", "w", "x", "y", "z">>

UpperLetters == <<"A", "B", "C", "D", "E", "F", "G", "H", "I", "J", "K", "L", "M",
                  "N", "O", "P", "Q", "R", "S", "T", "U", "V", "W", "X", "Y", "Z">>

\* str.upper() on one character
UpperChar(c) ==
    IF \E k \in 1..Len(LowerLetters) : LowerLetters[k] = c
    THEN UpperLetters[CHOOSE k \in 1..Len(LowerLetters) : LowerLetters[k] = c]
    ELSE c

\* (mutation of StrUpper: the value is compared as it is written)
StrUpperOmitted(str) == str

\* lines 156-157: str.upper()
StrUpper(str) == [k \in 1..Len(str) |-> UpperChar(str[k])]

\* the literals "TOR" and "CLEARNET" of lines 156-157
TOR == <<"T", "O", "R">>

CLEARNET == <<"C", "L", "E", "A", "R", "N", "E", "T">>

\* lines 153-159: the test of one condition; cond.get(key) of a missing key
\* is None, which equals no string, and the default of value is ""
CondMatches(cond) ==
    /\ "condition" \in DOMAIN cond
    /\ cond.condition = "NODE_SOCKETS"
    /\ \/ /\ "operator" \in DOMAIN cond
          /\ cond.operator = "NOT_EQUAL_TO"
          /\ StrUpper(Get(cond, "value", <<>>)) = TOR
       \/ /\ "operator" \in DOMAIN cond
          /\ cond.operator = "CONTAINS"
          /\ StrUpper(Get(cond, "value", <<>>)) = CLEARNET

RECURSIVE TorLoop(_, _)
\* lines 152-161: the loop from condition k on, returning at the first match
TorLoop(conds, k) ==
    IF k > Len(conds) THEN FALSE
    ELSE IF CondMatches(conds[k]) THEN TRUE
    ELSE TorLoop(conds, k + 1)

\* lines 151-161
IsTorRestricted(offer) == TorLoop(Get(offer, "conditions", <<>>), 1)

\* values as offers write them
ClsValues ==
    { <<"t", "o", "r">>, <<"T", "O", "R">>, <<"T", "o", "r">>,
      <<"c", "l", "e", "a", "r", "n", "e", "t">>,
      <<"C", "L", "E", "A", "R", "N", "E", "T">>,
      <<"C", "l", "e", "a", "r", "N", "e", "t">>,
      <<"o", "n", "i", "o", "n">> }

ClsConditions ==
    { [condition |-> c, operator |-> o, value |-> v] :
        c \in {"NODE_SOCKETS", "NODE_CAPACITY"},
        o \in {"NOT_EQUAL_TO", "CONTAINS", "EQUAL_TO"},
        v \in ClsValues }
    \cup { [condition |-> "NODE_SOCKETS", operator |-> "NOT_EQUAL_TO"] }

\* offers with a list of conditions, and the offer with no conditions key
ClsOffers ==
    { [conditions |-> cs] : cs \in OfferLists(ClsConditions, MaxConds) }
    \cup { [account |-> "A"] }

InitCls ==
    /\ WatchIdle
    /\ BlockIdle
    /\ SweepIdle
    /\ KnapIdle
    /\ GenIdle
    /\ FetchIdle
    /\ cls_offer \in ClsOffers
    /\ cls_result = FALSE
    /\ cls_pc = "start"

Classify ==
    /\ cls_pc = "start"
    /\ cls_result' = IsTorRestricted(cls_offer)
    /\ cls_pc' = "done"
    /\ UNCHANGED <<cls_offer, knapVars, genVars, fetchVars, sweepVars, watchVars, blockVars>>

NextCls == Classify

SpecCls == InitCls /\ [][NextCls]_vars

\* two characters that are the same letter in either case
SameLetter(x, y) ==
    \/ x = y
    \/ \E k \in 1..Len(LowerLetters) : {x, y} = {LowerLetters[k], UpperLetters[k]}

EqualsIgnoringCase(v, w) ==
    /\ Len(v) = Len(w)
    /\ \A k \in 1..Len(v) : SameLetter(v[k], w[k])

\* the rule of the classifier, stated on one condition
RestrictsTor(cond) ==
    /\ "condition" \in DOMAIN cond /\ cond.condition = "NODE_SOCKETS"
    /\ "operator" \in DOMAIN cond
    /\ "value" \in DOMAIN cond
    /\ \/ cond.operator = "NOT_EQUAL_TO" /\ EqualsIgnoringCase(cond.value, TOR)
       \/ cond.operator = "CONTAINS" /\ EqualsIgnoringCase(cond.value, CLEARNET)

LowerChar(c) ==
    IF \E k \in 1..Len(UpperLetters) : UpperLetters[k] = c
    THEN LowerLetters[CHOOSE k \in 1..Len(UpperLetters) : UpperLetters[k] = c]
    ELSE c

\* the condition with its value, when it has one, in lower case
Lowered(cond) ==
    IF "value" \in DOMAIN cond
    THEN [cond EXCEPT !.value = [k \in 1..Len(cond.value) |-> LowerChar(cond.value[k])]]
    ELSE cond

Permutations(n) == {f \in [1..n -> 1..n] : \A x, y \in 1..n : f[x] = f[y] => x = y}

\* C10: is_tor_restricted is true exactly when some condition has condition
\* NODE_SOCKETS and either operator NOT_EQUAL_TO with a value equal to TOR
\* ignoring case or operator CONTAINS with a value equal to CLEARNET ignoring
\* case; it is false without conditions, and the same for every order of the
\* conditions and for the values written in lower case.
C10_ClassifierRule ==
    cls_pc = "done" =>
        LET conds == IF "conditions" \in DOMAIN cls_offer
                     THEN cls_offer.conditions ELSE <<>>
            n     == Len(conds)
        IN  /\ cls_result = (\E k \in 1..n : RestrictsTor(conds[k]))
            /\ \A f \in Permutations(n) :
                  IsTorRestricted([conditions |-> [k \in 1..n |-> conds[f[k]]]])
                      = cls_result
            /\ IsTorRestricted([conditions |-> [k \in 1..n |-> Lowered(conds[k])]])
                  = cls_result

\* C10 witness: an offer classified restricted by its second condition, whose
\* value is not written in upper case, the first condition not matching.
C10_Witness ==
    /\ cls_pc = "done"
    /\ cls_result
    /\ Len(cls_offer.conditions) = 2
    /\ ~RestrictsTor(cls_offer.conditions[1])
    /\ RestrictsTor(cls_offer.conditions[2])
    /\ cls_offer.conditions[2].value \notin {TOR, CLEARNET}

----------------------------------------------------------------------------
(* get_offer_details and get_all_offer_details, lines 37-92 *)

\* line 81: ThreadPoolExecutor(max_workers=8)
max_workers == 8

\* Python's None
None == [none |-> TRUE]

\* the record data['data']['getOffer'] of a successful request
OfferRecord(offer_id) == [id |-> offer_id]

\* what a request can meet: an exception (requests.post, raise_for_status
\* or resp.json() raise), a payload with "errors", a payload whose getOffer
\* is null, or the offer's record
Responses == {"exception", "errors", "empty", "ok"}

\* lines 58-69: the value get_offer_details returns
GetOfferDetails(offer_id, resp) ==
    CASE resp = "exception" -> None
      [] resp = "errors"    -> None
      [] resp = "empty"     -> None
      [] resp = "ok"        -> OfferRecord(offer_id)

\* (mutation of Truthy: the result is appended without the test)
TruthyOmitted(v) == TRUE

\* line 87: if offer
Truthy(v) == v # None /\ v # EmptyDict

\* the ids as a set
IdSet == {offer_ids[k] : k \in 1..Len(offer_ids)}

InitFetch ==
    /\ WatchIdle
    /\ BlockIdle
    /\ SweepIdle
    /\ KnapIdle
    /\ GenIdle
    /\ ClsIdle
    /\ \E n \in 0..MaxIds : offer_ids = [k \in 1..n |-> k]
    /\ fut = EmptyDict
    /\ fut_result = EmptyDict
    /\ yielded = {}
    /\ fetched = <<>>
    /\ fetch_pc = "submit"
    /\ response = EmptyDict

\* lines 80-82: every id is submitted to the pool
Submit ==
    /\ fetch_pc = "submit"
    /\ fut' = [id \in IdSet |-> "pending"]
    /\ fut_result' = [id \in IdSet |-> None]
    /\ response' = [id \in IdSet |-> "none"]
    /\ fetch_pc' = "collect"
    /\ UNCHANGED <<offer_ids, yielded, fetched, knapVars, genVars, clsVars, sweepVars, watchVars, blockVars>>

\* the pool: an idle worker takes the oldest pending work item
WorkerStart(id) ==
    /\ fetch_pc = "collect"
    /\ fut[id] = "pending"
    /\ Cardinality({x \in IdSet : fut[x] = "running"}) < max_workers
    /\ \A x \in IdSet : fut[x] = "pending" => id <= x
    /\ fut' = [fut EXCEPT ![id] = "running"]
    /\ UNCHANGED <<offer_ids, fut_result, yielded, fetched, fetch_pc, response,
                   knapVars, genVars, clsVars, sweepVars, watchVars, blockVars>>

\* lines 58-69 on a worker: the request ends and the future gets its result
WorkerFinish(id, resp) ==
    /\ fetch_pc = "collect"
    /\ fut[id] = "running"
    /\ fut' = [fut EXCEPT ![id] = "finished"]
    /\ fut_result' = [fut_result EXCEPT ![id] = GetOfferDetails(id, resp)]
    /\ response' = [response EXCEPT ![id] = resp]
    /\ UNCHANGED <<offer_ids, yielded, fetched, fetch_pc, knapVars, genVars, clsVars, sweepVars, watchVars, blockVars>>

\* lines 83-91: as_completed yields a finished future, its result is kept
\* when it is truthy
Collect(id) ==
    /\ fetch_pc = "collect"
    /\ fut[id] = "finished"
    /\ id \notin yielded
    /\ yielded' = yielded \cup {id}
    /\ fetched' = IF Truthy(fut_result[id])
                  THEN Append(fetched, fut_result[id]) ELSE fetched
    /\ UNCHANGED <<offer_ids, fut, fut_result, fetch_pc, response,
                   knapVars, genVars, clsVars, sweepVars, watchVars, blockVars>>

\* line 92: every future was yielded, the pool shuts down, offers is returned
ReturnOffers ==
    /\ fetch_pc = "collect"
    /\ yielded = IdSet
    /\ fetch_pc' = "returned"
    /\ UNCHANGED <<offer_ids, fut, fut_result, yielded, fetched, response,
                   knapVars, genVars, clsVars, sweepVars, watchVars, blockVars>>

NextFetch ==
    \/ Submit
    \/ \E id \in IdSet : WorkerStart(id)
    \/ \E id \in IdSet, resp \in Responses : WorkerFinish(id, resp)
    \/ \E id \in IdSet : Collect(id)
    \/ ReturnOffers

SpecFetch == InitFetch /\ [][NextFetch]_vars

\* the threads of the pool and the collecting loop keep running, and every
\* request ends (with one of Responses)
FairSpecFetch == SpecFetch /\ WF_vars(NextFetch)

Succeeded == {id \in IdSet : response[id] = "ok"}

\* C8: whatever requests fail and in whatever order the workers finish,
\* get_all_offer_details returns, and what it returns holds the record of
\* every offer whose request succeeded exactly once and nothing else.
C8_FetchReturnsSucceeded ==
    /\ <>(fetch_pc = "returned")
    /\ [](fetch_pc = "returned" =>
            /\ Len(fetched) = Cardinality(Succeeded)
            /\ \A id \in Succeeded :
                  Cardinality({k \in 1..Len(fetched) : fetched[k] = OfferRecord(id)}) = 1
            /\ \A k \in 1..Len(fetched) :
                  \E id \in Succeeded : fetched[k] = OfferRecord(id))

\* C8 witness: a returned fetch in which a request failed and the records of
\* two later offers were collected against the order of submission.
C8_Witness ==
    /\ fetch_pc = "returned"
    /\ \E id \in IdSet : response[id] # "ok" /\ \A x \in Succeeded : id < x
    /\ Len(fetched) = 2
    /\ fetched[1].id > fetched[2].id

----------------------------------------------------------------------------
(* generate_liquidity_chart, lines 207-234 *)

\* lines 71-74: usd_to_sats, with the price given per satoshi.  The model's
\* prices are 49 and 99 hundred million USD per coin, which keeps the
\* budgets, and so the tables, small; for these prices, the budgets of the
\* coarse grid and those of key_budgets Python's int(usd / btc_usd * 100_000_000) is the integer
\* quotient below (it is not for every price: at 25 hundred million,
\* int(75 / btc_usd * 100_000_000) is 2).
UsdToSats(usd, price) == usd \div price

\* lines 76-77: sats_to_usd, with the price given per satoshi; the float
\* product and quotient are exact for the model's values
SatsToUsd(sats, price) == sats * price

\* line 217: np.arange(0, 505, 25)
BudgetsUsdCoarse == [k \in 1..((505 + 24) \div 25) |-> 25 * (k - 1)]

\* the fields offer_price_per_sat reads with offer['...'] and int()
PriceFields == {"min_size", "base_fee", "fee_rate", "amboss_fee_rate"}

PriceRaises(offer) == \E f \in PriceFields : f \notin DOMAIN offer

\* lines 171-180, as the pair (cost, min_size) whose quotient is the key
OfferPricePerSat(offer) ==
    LET total_fee_rate == offer.fee_rate + offer.amboss_fee_rate
        cost == offer.base_fee + (offer.min_size * total_fee_rate) \div PpmScale
    IN  <<cost, offer.min_size>>

\* key(x) < key(y), the quotients compared by cross-multiplication
PriceLess(x, y) ==
    LET kx == OfferPricePerSat(x)
        ky == OfferPricePerSat(y)
    IN  kx[1] * ky[2] < ky[1] * kx[2]

RECURSIVE InsertSorted(_, _)
\* x placed after every element whose key is not greater (sorted is stable)
InsertSorted(sorted, x) ==
    IF sorted = <<>> THEN <<x>>
    ELSE IF PriceLess(x, Head(sorted)) THEN <<x>> \o sorted
    ELSE <<Head(sorted)>> \o InsertSorted(Tail(sorted), x)

RECURSIVE SortedByPrice(_)
\* lines 215-216: sorted(offs, key=offer_price_per_sat)
SortedByPrice(offs) ==
    IF offs = <<>> THEN <<>>
    ELSE InsertSorted(SortedByPrice(SubSeq(offs, 1, Len(offs) - 1)), offs[Len(offs)])

NotTorRestricted(o) == ~IsTorRestricted(o)

\* line 213
OffersTor(offs) == SelectSeq(offs, NotTorRestricted)

\* (mutation of OffersClearnet: only the restricted offers are kept)
OffersClearnetOnly(offs) == SelectSeq(offs, IsTorRestricted)

\* line 214
OffersClearnet(offs) == offs

\* offers as get_offer_details returns them (no allow_parallel key)
SweepCatalogue ==
    { [account |-> "A", min_size |-> 1000000, max_size |-> 5000000,
       base_fee |-> 1, fee_rate |-> 1, amboss_fee_rate |-> 0,
       conditions |-> <<>>],
      [account |-> "B", min_size |-> 2000000, max_size |-> 2000000,
       base_fee |-> 3, fee_rate |-> 0, amboss_fee_rate |-> 0,
       conditions |-> <<[condition |-> "NODE_SOCKETS", operator |-> "NOT_EQUAL_TO",
                         value |-> <<"t", "o", "r">>]>>],
      [account |-> "C", min_size |-> 3000000, max_size |-> 3000000,
       base_fee |-> 0, fee_rate |-> 1, amboss_fee_rate |-> 1,
       conditions |-> <<[condition |-> "NODE_CAPACITY", operator |-> "EQUAL_TO",
                         value |-> <<"o", "n", "i", "o", "n">>],
                        [condition |-> "NODE_SOCKETS", operator |-> "CONTAINS",
                         value |-> <<"C", "l", "e", "a", "r", "n", "e", "t">>]>>],
      [account |-> "A", min_size |-> 1000000, max_size |-> 1000000,
       base_fee |-> 0, fee_rate |-> 0, amboss_fee_rate |-> 0],
      [account |-> "B", min_size |-> 1000000,
       base_fee |-> 1, fee_rate |-> 0, amboss_fee_rate |-> 0,
       conditions |-> <<>>],
      [account |-> "B", min_size |-> 2000000,
       base_fee |-> 1, fee_rate |-> 0, amboss_fee_rate |-> 0,
       conditions |-> <<[condition |-> "NODE_SOCKETS", operator |-> "CONTAINS",
                         value |-> <<"c", "l", "e", "a", "r", "n", "e", "t">>]>>],
      [account |-> "A", min_size |-> 2000000, max_size |-> 2000000,
       base_fee |-> 2, fee_rate |-> 0,
       conditions |-> <<>>],
      [account |-> "C", min_size |-> 1000000, max_size |-> 1000000,
       base_fee |-> 1, amboss_fee_rate |-> 0,
       conditions |-> <<[condition |-> "NODE_SOCKETS", operator |-> "NOT_EQUAL_TO",
                         value |-> <<"T", "O", "R">>]>>] }

InitSweep ==
    /\ WatchIdle
    /\ BlockIdle
    /\ KnapIdle
    /\ GenIdle
    /\ ClsIdle
    /\ FetchIdle
    /\ sw_offers \in OfferLists(SweepCatalogue, MaxOffers)
    /\ usd_per_sat \in {49, 99}
    /\ offers_tor_sorted = <<>>
    /\ offers_clearnet_sorted = <<>>
    /\ sw_i = 0
    /\ y_tor_coarse = <<>>
    /\ y_clearnet_coarse = <<>>
    /\ costs_tor_coarse = <<>>
    /\ costs_clearnet_coarse = <<>>
    /\ key_i = 0
    /\ annotations = {}
    /\ sw_pc = "start"

\* lines 213-220: the two variants are filtered and sorted; the key function
\* raises on an offer without one of its fields
SortAndFilter ==
    /\ sw_pc = "start"
    /\ LET tor      == OffersTor(sw_offers)
           clearnet == OffersClearnet(sw_offers)
       IN  IF \E k \in 1..Len(tor) : PriceRaises(tor[k])
           THEN /\ sw_pc' = "raised"
                /\ UNCHANGED <<offers_tor_sorted, offers_clearnet_sorted, sw_i>>
           ELSE IF \E k \in 1..Len(clearnet) : PriceRaises(clearnet[k])
           THEN /\ sw_pc' = "raised"
                /\ offers_tor_sorted' = SortedByPrice(tor)
                /\ UNCHANGED <<offers_clearnet_sorted, sw_i>>
           ELSE /\ offers_tor_sorted' = SortedByPrice(tor)
                /\ offers_clearnet_sorted' = SortedByPrice(clearnet)
                /\ sw_i' = 1
                /\ sw_pc' = "sweep"
    /\ UNCHANGED <<sw_offers, usd_per_sat, y_tor_coarse, y_clearnet_coarse,
                   costs_tor_coarse, costs_clearnet_coarse, key_i, annotations>>
    /\ UNCHANGED <<knapVars, genVars, clsVars, fetchVars, watchVars, blockVars>>

\* lines 221-230: one budget of the coarse grid, both variants solved; an
\* exception of knapsack_liquidity leaves the function
SweepStep ==
    /\ sw_pc = "sweep"
    /\ sw_i <= Len(BudgetsUsdCoarse)
    /\ LET budget == UsdToSats(BudgetsUsdCoarse[sw_i], usd_per_sat)
       IN  IF ChunksRaise(offers_tor_sorted)
           THEN /\ sw_pc' = "raised"
                /\ UNCHANGED <<sw_i, y_tor_coarse, y_clearnet_coarse,
                               costs_tor_coarse, costs_clearnet_coarse>>
           ELSE LET tor == KnapsackLiquidity(budget, offers_tor_sorted, TRUE)
                IN  /\ y_tor_coarse' =
                          Append(y_tor_coarse, SatsToUsd(tor.max_liq, usd_per_sat))
                    /\ costs_tor_coarse' =
                          Append(costs_tor_coarse, SatsToUsd(tor.total_cost, usd_per_sat))
                    /\ IF ChunksRaise(offers_clearnet_sorted)
                       THEN /\ sw_pc' = "raised"
                            /\ UNCHANGED <<sw_i, y_clearnet_coarse, costs_clearnet_coarse>>
                       ELSE LET all == KnapsackLiquidity(budget, offers_clearnet_sorted, TRUE)
                            IN  /\ y_clearnet_coarse' =
                                      Append(y_clearnet_coarse,
                                             SatsToUsd(all.max_liq, usd_per_sat))
                                /\ costs_clearnet_coarse' =
                                      Append(costs_clearnet_coarse,
                                             SatsToUsd(all.total_cost, usd_per_sat))
                                /\ sw_i' = sw_i + 1
                                /\ sw_pc' = "sweep"
    /\ UNCHANGED <<sw_offers, usd_per_sat, offers_tor_sorted, offers_clearnet_sorted,
                   key_i, annotations>>
    /\ UNCHANGED <<knapVars, genVars, clsVars, fetchVars, watchVars, blockVars>>

\* lines 231-258: the grid is exhausted, rendering starts
SweepEnd ==
    /\ sw_pc = "sweep"
    /\ sw_i > Len(BudgetsUsdCoarse)
    /\ sw_pc' = "render"
    /\ key_i' = 1
    /\ UNCHANGED <<sw_offers, usd_per_sat, offers_tor_sorted, offers_clearnet_sorted,
                   sw_i, y_tor_coarse, y_clearnet_coarse, costs_tor_coarse,
                   costs_clearnet_coarse, annotations>>
    /\ UNCHANGED <<knapVars, genVars, clsVars, fetchVars, watchVars, blockVars>>

\* line 258
key_budgets == <<10, 50, 100, 500>>

\* line 260: np.where(budgets_usd_coarse == key_usd)[0], the matching indices
\* in increasing order (as a set; idx[0] is its least element)
Where(grid, key_usd) == {k \in 1..Len(grid) : grid[k] = key_usd}

\* lines 263 and 268: the test that guards the division
AnnotateGuard(y) == y > 0

\* lines 264-267 and 269-272: the annotation of one variant at grid index k;
\* pct is kept as the pair of the float quotient's operands
Annotation(variant, k, costs, y) ==
    [usd |-> BudgetsUsdCoarse[k], variant |-> variant,
     pct_num |-> 100 * costs[k], pct_den |-> y[k]]

\* lines 259-272: one iteration of the loop over key_budgets; a division by
\* zero raises ZeroDivisionError out of the function
Annotate ==
    /\ sw_pc = "render"
    /\ key_i <= Len(key_budgets)
    /\ LET idx == Where(BudgetsUsdCoarse, key_budgets[key_i])
       IN  IF idx = {}
           THEN /\ key_i' = key_i + 1
                /\ UNCHANGED <<annotations, sw_pc>>
           ELSE LET k    == CHOOSE m \in idx : \A n \in idx : m <= n
                    tor  == AnnotateGuard(y_tor_coarse[k])
                    all  == AnnotateGuard(y_clearnet_coarse[k])
                    drawn_tor == IF tor
                                 THEN {Annotation("tor", k, costs_tor_coarse, y_tor_coarse)}
                                 ELSE {}
                    drawn_all == IF all
                                 THEN {Annotation("clearnet", k, costs_clearnet_coarse,
                                                  y_clearnet_coarse)}
                                 ELSE {}
                IN  IF tor /\ y_tor_coarse[k] = 0
                    THEN /\ sw_pc' = "zero_division"
                         /\ UNCHANGED <<key_i, annotations>>
                    ELSE IF all /\ y_clearnet_coarse[k] = 0
                    THEN /\ sw_pc' = "zero_division"
                         /\ annotations' = annotations \cup drawn_tor
                         /\ UNCHANGED key_i
                    ELSE /\ annotations' = annotations \cup drawn_tor \cup drawn_all
                         /\ key_i' = key_i + 1
                         /\ UNCHANGED sw_pc
    /\ UNCHANGED <<sw_offers, usd_per_sat, offers_tor_sorted, offers_clearnet_sorted,
                   sw_i, y_tor_coarse, y_clearnet_coarse, costs_tor_coarse,
                   costs_clearnet_coarse>>
    /\ UNCHANGED <<knapVars, genVars, clsVars, fetchVars, watchVars, blockVars>>

\* lines 273-295: the chart is saved and its path returned
SaveChart ==
    /\ sw_pc = "render"
    /\ key_i > Len(key_budgets)
    /\ sw_pc' = "saved"
    /\ UNCHANGED <<sw_offers, usd_per_sat, offers_tor_sorted, offers_clearnet_sorted,
                   sw_i, y_tor_coarse, y_clearnet_coarse, costs_tor_coarse,
                   costs_clearnet_coarse, key_i, annotations>>
    /\ UNCHANGED <<knapVars, genVars, clsVars, fetchVars, watchVars, blockVars>>

NextSweep == SortAndFilter \/ SweepStep \/ SweepEnd \/ Annotate \/ SaveChart

SpecSweep == InitSweep /\ [][NextSweep]_vars

\* C5: at every budget of the coarse grid the liquidity of the all-offers
\* variant is at least that of the variant without the restricted offers.
C5_AllOffersCurveDominates ==
    \A k \in 1..Len(y_clearnet_coarse) : y_clearnet_coarse[k] >= y_tor_coarse[k]

\* C5 witness: a completed sweep in which sorting reordered the offers and, at
\* some budget, the all-offers variant buys strictly more than the other
\* variant, which buys something.
C5_Witness ==
    /\ sw_pc = "render"
    /\ offers_clearnet_sorted # sw_offers
    /\ \E k \in 1..Len(y_clearnet_coarse) :
          /\ y_tor_coarse[k] > 0
          /\ y_clearnet_coarse[k] > y_tor_coarse[k]

\* an offer whose four numeric fields are present
WellFormed(offer) == NumericFields \subseteq DOMAIN offer

\* C7 (as claimed): an offer with a missing or malformed numeric field is left
\* out and the sweep completes: it never ends in an exception, and its curves
\* are those of the well-formed offers.
C7_MalformedOfferExcluded ==
    /\ sw_pc # "raised"
    /\ sw_pc = "render" =>
          LET good == SortedByPrice(SelectSeq(sw_offers, WellFormed))
          IN  \A k \in 1..Len(BudgetsUsdCoarse) :
                 y_clearnet_coarse[k] =
                    SatsToUsd(KnapsackLiquidity(
                                  UsdToSats(BudgetsUsdCoarse[k], usd_per_sat),
                                  good, TRUE).max_liq,
                              usd_per_sat)

\* the maximum liquidity (in sats) a variant can buy with key_usd
MaxLiquidityAt(key_usd, variant) ==
    KnapsackLiquidity(UsdToSats(key_usd, usd_per_sat),
                      IF variant = "tor" THEN offers_tor_sorted
                                         ELSE offers_clearnet_sorted,
                      TRUE).max_liq

Annotated(key_usd, variant) ==
    \E a \in annotations : a.usd = key_usd /\ a.variant = variant

\* C11 (as claimed): for each of the checkpoint budgets 10, 50, 100 and 500 USD
\* and each variant, the saved chart carries a fee-percentage annotation exactly
\* when the variant's maximum liquidity at that budget is non-zero, and no
\* division by zero is performed.
C11_AnnotationIffLiquidity ==
    /\ sw_pc # "zero_division"
    /\ sw_pc = "saved" =>
          \A k \in 1..Len(key_budgets), variant \in {"tor", "clearnet"} :
              Annotated(key_budgets[k], variant)
                  <=> MaxLiquidityAt(key_budgets[k], variant) # 0

----------------------------------------------------------------------------
(* bot.py: Python objects of the watch list *)

\* line 71: the pattern [0-9a-fA-F]{64}
HexDigits == {"0", "1", "2", "3", "4", "5", "6", "7", "8", "9",
              "a", "b", "c", "d", "e", "f", "A", "B", "C", "D", "E", "F"}

TxidLength == 64

\* lines 70-71: is_valid_txid (re.fullmatch)
IsValidTxid(txid) ==
    /\ Len(txid) = TxidLength
    /\ \A k \in 1..Len(txid) : txid[k] \in HexDigits

Whitespace == {" ", "\n", "\t"}

RECURSIVE LStrip(_)
LStrip(s) == IF s # <<>> /\ Head(s) \in Whitespace THEN LStrip(Tail(s)) ELSE s

RECURSIVE RStrip(_)
RStrip(s) ==
    IF s # <<>> /\ s[Len(s)] \in Whitespace
    THEN RStrip(SubSeq(s, 1, Len(s) - 1)) ELSE s

\* lines 117 and 255: str.strip()
Strip(s) == RStrip(LStrip(s))

\* a deleted slot of a dict's entry table
Dummy == [key |-> <<>>, value |-> 0]

IsLive(slot) == slot.key # <<>>

\* the slots a dict's entry table has before it is rebuilt (CPython: a table
\* of 8 buckets holds 5 entries; a dict of at most two keys is rebuilt at
\* that same size, deleted slots dropped)
DictUsable == 5

\* the indices of the live slots
LiveSlots(d) == {k \in 1..Len(d) : IsLive(d[k])}

\* the keys, and len(d)
Keys(d) == {d[k].key : k \in LiveSlots(d)}

DictLen(d) == Cardinality(LiveSlots(d))

SlotOf(d, key) == CHOOSE k \in LiveSlots(d) : d[k].key = key

\* d[key]
DictGet(d, key) == d[SlotOf(d, key)].value

\* d[key] = value: a present key keeps its slot, a new key takes the next
\* slot, after the table was rebuilt without its deleted slots if it was full
DictSet(d, key, value) ==
    LET slot == [key |-> key, value |-> value]
    IN  IF key \in Keys(d) THEN [d EXCEPT ![SlotOf(d, key)] = slot]
        ELSE IF Len(d) >= DictUsable THEN Append(SelectSeq(d, IsLive), slot)
        ELSE Append(d, slot)

\* del d[key] of a present key: its slot stays in the table, deleted
DictDel(d, key) == [k \in 1..Len(d) |-> IF d[k].key = key THEN Dummy ELSE d[k]]

\* what next() of a dict iterator does (CPython's dictiter_iternextitem): the
\* size test comes first, then the search for a live slot from the position
\* on, then the count of the items still expected
DictIterNext(d, used, pos, len) ==
    LET ahead == {k \in LiveSlots(d) : k >= pos}
    IN  IF used # DictLen(d) THEN "size_changed"
        ELSE IF ahead = {} THEN "exhausted"
        ELSE IF len = 0 THEN "keys_changed"
        ELSE "item"

\* the slot a dict iterator yields
DictIterSlot(d, pos) ==
    CHOOSE k \in LiveSlots(d) : k >= pos /\ \A j \in LiveSlots(d) : j >= pos => k <= j

\* the least id no object of the heap has
FreshId(heap) == CHOOSE n \in 1..(Cardinality(DOMAIN heap) + 1) : n \notin DOMAIN heap

\* the objects a collection leaves alive: the lists the dict or the job's
\* local watchers refer to, and the watchers in them
LiveLists(d, held) == {d[k].value : k \in LiveSlots(d)} \cup (held \ {0})

GcLists(ls, d, held) == [l \in LiveLists(d, held) \cap DOMAIN ls |-> ls[l]]

GcWatchers(ws, ls) ==
    [w \in UNION {{ls[l][k] : k \in 1..Len(ls[l])} : l \in DOMAIN ls} \cap DOMAIN ws
        |-> ws[w]]

----------------------------------------------------------------------------
(* bot.py: get_confirmations, lines 90-114 *)

\* a Python int, told apart from None
PyInt(n) == [int |-> n]

\* the truth value of an int or None
IntTruthy(v) == v # None /\ v.int # 0

\* a or b
PyOr(a, c) == IF IntTruthy(a) THEN a ELSE c

Max(x, y) == IF x >= y THEN x ELSE y

\* lines 90-114: the value returned for what the two requests meet
GetConfirmations(resp) ==
    IF resp.raises THEN None
    ELSE IF resp.status_code # 200 THEN None
    ELSE LET data          == resp.data
             confirmations == Get(data, "confirmations", None)
         IN  IF confirmations # None /\ confirmations.int > 0
             THEN confirmations
             ELSE LET status       == Get(data, "status", EmptyDict)
                      block_height == PyOr(Get(status, "block_height", None),
                                           Get(data, "block_height", None))
                  IN  IF IntTruthy(block_height)
                      THEN LET blocks_resp == resp.blocks
                           IN  IF blocks_resp.raises THEN None
                               ELSE IF /\ blocks_resp.status_code = 200
                                       /\ blocks_resp.json # <<>>
                               THEN LET tip_height == blocks_resp.json[1].height
                                    IN  PyInt(Max(0, tip_height
                                                        - block_height.int + 1))
                               ELSE PyInt(0)
                      ELSE PyInt(0)

\* the height of the block the model's transactions are mined in
MinedHeight == 800000

\* what the requests of get_confirmations can meet for a transaction of n
\* confirmations: an exception, an error status, a record with the count, or
\* a record with the block height, followed by the request of the chain tip
TxResponses(n) ==
    LET ok(data)     == [raises |-> FALSE, status_code |-> 200, data |-> data]
        mined        == [status |-> [block_height |-> PyInt(MinedHeight)]]
        tip(payload) == [raises |-> FALSE, status_code |-> 200, json |-> payload]
        with(blocks) == [raises |-> FALSE, status_code |-> 200, data |-> mined,
                         blocks |-> blocks]
    IN  { [raises |-> TRUE],
          [raises |-> FALSE, status_code |-> 404],
          ok([confirmations |-> PyInt(n)]) }
        \cup (IF n = 0
              THEN { ok([status |-> EmptyDict]) }
              ELSE { with(tip(<<[height |-> MinedHeight + n - 1]>>)),
                     with(tip(<<>>)),
                     with([raises |-> FALSE, status_code |-> 502]),
                     with([raises |-> TRUE]) })

\* a response that keeps the transaction's state from the caller
IsFailure(resp, n) == GetConfirmations(resp) # PyInt(n)

----------------------------------------------------------------------------
(* bot.py: handle_txid, remove and check_confirmations as a state machine. *)
(* The handlers and the job are coroutines of one event loop: a coroutine  *)
(* runs alone up to its next await, so a handler moves only while the job  *)
(* is between two passes or suspended in send_message, and updates are     *)
(* handled one at a time.  A pass that is still running when the scheduler *)
(* fires again is not started a second time.                               *)

Chats == {1, 2}

TxA == [k \in 1..TxidLength |-> "a"]

TxB == [k \in 1..TxidLength |-> "F"]

TxKeys == {TxA, TxB}

\* the texts a chat sends: the two txids, one of them also with blanks
\* around it, a text one digit short and a text with a letter that is no digit
Texts ==
    TxKeys \cup { <<" ">> \o TxA \o <<"\n">>,
                  [k \in 1..(TxidLength - 1) |-> "a"],
                  [k \in 1..TxidLength |-> IF k = TxidLength THEN "g" ELSE "0"] }

\* context.args of /remove: the whitespace-separated words after the command
RemoveArgs ==
    {<<>>} \cup {<<t>> : t \in {x \in Texts : \A k \in 1..Len(x) : x[k] \notin Whitespace}}

\* the confirmation counts the model's transactions pass through
ConfLevels == {5, 6}

\* where the event loop can run a handler
JobSuspended == job_pc \in {"idle", "await_send"}

\* the list the job's local watchers refers to while its inner loop runs
Held == IF job_pc \in {"inner", "await_send"} THEN {job_watchers} ELSE {}

HeapPut(heap, id, obj) ==
    [x \in DOMAIN heap \cup {id} |-> IF x = id THEN obj ELSE heap[x]]

\* line 160: all(w['notified'] for w in watchers)
AllNotified(ls, ws, l) == \A k \in 1..Len(ls[l]) : ws[ls[l][k]].notified

\* line 136: any(entry['chat_id'] == chat_id for entry in watched_tx[txid])
\* (mutation of AnyChat: the list is not searched for the chat)
AnyChatNever(ls, ws, l, chat_id) == \E k \in {} : ws[ls[l][k]].chat_id = chat_id

AnyChat(ls, ws, l, chat_id) == \E k \in 1..Len(ls[l]) : ws[ls[l][k]].chat_id = chat_id

RECURSIVE WithoutChat(_, _, _)
\* line 261: [w for w in watched_tx[txid] if w['chat_id'] != chat_id]
WithoutChat(ws, list, chat_id) ==
    IF list = <<>> THEN <<>>
    ELSE (IF ws[Head(list)].chat_id # chat_id THEN <<Head(list)>> ELSE <<>>)
            \o WithoutChat(ws, Tail(list), chat_id)

InitWatch ==
    /\ SweepIdle
    /\ KnapIdle
    /\ GenIdle
    /\ ClsIdle
    /\ FetchIdle
    /\ BlockIdle
    \* the dict is empty: either it is new, or earlier keys have come and
    \* gone and left one slot before the table is rebuilt
    /\ \E d \in {0, DictUsable - 1} : watched_tx = [k \in 1..d |-> Dummy]
    /\ lists = EmptyDict
    /\ watcher_objs = EmptyDict
    /\ confs = [t \in TxKeys |-> 5]
    /\ h_pc = "idle"
    /\ h_chat = 0
    /\ h_txid = <<>>
    /\ h_msg = ""
    /\ job_pc = "idle"
    /\ to_remove = <<>>
    /\ it_used = 0
    /\ it_pos = 0
    /\ it_len = 0
    /\ job_txid = <<>>
    /\ job_watchers = 0
    /\ w_pos = 0
    /\ job_exc = "none"
    /\ commands = 0
    /\ failures = 0
    /\ delivered = {}
    /\ stopped = {}
    /\ start_keys = {}
    /\ visited = {}

jobLocals == <<to_remove, it_used, it_pos, it_len, job_txid, job_watchers, w_pos>>

handlerVars == <<h_pc, h_chat, h_txid, h_msg>>

watchHistory == <<delivered, stopped, start_keys, visited>>

\* the chain: a transaction gains confirmations
Confirm(t) ==
    /\ \E n \in ConfLevels : n > confs[t] /\ confs' = [confs EXCEPT ![t] = n]
    /\ UNCHANGED <<watched_tx, lists, watcher_objs, handlerVars, job_pc, jobLocals,
                   job_exc, commands, failures, watchHistory>>
    /\ UNCHANGED <<knapVars, genVars, clsVars, fetchVars, sweepVars, blockVars>>

\* lines 116-121: handle_txid of a text that is no txid
HandleInvalidText(chat_id, text) ==
    /\ h_pc = "idle"
    /\ JobSuspended
    /\ commands < MaxCommands
    /\ ~IsValidTxid(Strip(text))
    /\ commands' = commands + 1
    /\ h_chat' = chat_id
    /\ h_txid' = <<>>
    /\ h_pc' = "final_reply"
    /\ h_msg' = "invalid"
    /\ UNCHANGED <<watched_tx, lists, watcher_objs, confs, job_pc, jobLocals, job_exc,
                   failures, watchHistory>>
    /\ UNCHANGED <<knapVars, genVars, clsVars, fetchVars, sweepVars, blockVars>>

\* lines 116-131: handle_txid of a txid up to its first reply; a transaction
\* found with 6 confirmations is answered and not watched
HandleTxid(chat_id, text, resp) ==
    /\ h_pc = "idle"
    /\ JobSuspended
    /\ commands < MaxCommands
    /\ IsValidTxid(Strip(text))
    /\ resp \in TxResponses(confs[Strip(text)])
    /\ commands' = commands + 1
    /\ LET txid          == Strip(text)
           confirmations == GetConfirmations(resp)
       IN  /\ h_chat' = chat_id
           /\ h_txid' = txid
           /\ IF IsFailure(resp, confs[txid])
              THEN failures < MaxFailures /\ failures' = failures + 1
              ELSE UNCHANGED failures
           /\ stopped' = stopped \ {<<chat_id, txid>>}
           /\ IF confirmations # None /\ confirmations.int >= 6
              THEN h_pc' = "final_reply" /\ h_msg' = "already"
              ELSE h_pc' = "txid_reply" /\ h_msg' = "will_monitor"
    /\ UNCHANGED <<watched_tx, lists, watcher_objs, confs, job_pc, jobLocals, job_exc,
                   delivered, start_keys, visited>>
    /\ UNCHANGED <<knapVars, genVars, clsVars, fetchVars, sweepVars, blockVars>>

\* lines 129-138: the first reply returns and the chat is added to the
\* watchers of the txid; a reply that raises ends the handler
TxidReplyReturns(ok) ==
    /\ h_pc = "txid_reply"
    /\ JobSuspended
    /\ IF ~ok
       THEN /\ failures < MaxFailures
            /\ failures' = failures + 1
            /\ h_pc' = "idle"
            /\ h_chat' = 0
            /\ h_txid' = <<>>
            /\ h_msg' = ""
            /\ UNCHANGED <<watched_tx, lists, watcher_objs>>
       ELSE LET present == h_txid \in Keys(watched_tx)
                l   == IF present THEN DictGet(watched_tx, h_txid) ELSE FreshId(lists)
                d1  == IF present THEN watched_tx ELSE DictSet(watched_tx, h_txid, l)
                ls1 == IF present THEN lists ELSE HeapPut(lists, l, <<>>)
                w   == FreshId(watcher_objs)
            IN  /\ watched_tx' = d1
                /\ IF ~AnyChat(ls1, watcher_objs, l, h_chat)
                   THEN /\ lists' = [ls1 EXCEPT ![l] = Append(@, w)]
                        /\ watcher_objs' =
                              HeapPut(watcher_objs, w,
                                      [chat_id |-> h_chat, notified |-> FALSE,
                                       sent |-> 0])
                   ELSE /\ lists' = ls1
                        /\ UNCHANGED watcher_objs
                /\ h_pc' = "final_reply"
                /\ h_msg' = "monitoring"
                /\ UNCHANGED <<h_chat, h_txid, failures>>
    /\ UNCHANGED <<confs, job_pc, jobLocals, job_exc, commands, watchHistory>>
    /\ UNCHANGED <<knapVars, genVars, clsVars, fetchVars, sweepVars, blockVars>>

\* lines 250-271: remove up to its reply
Remove(chat_id, args) ==
    /\ h_pc = "idle"
    /\ JobSuspended
    /\ commands < MaxCommands
    /\ commands' = commands + 1
    /\ h_chat' = chat_id
    /\ h_pc' = "final_reply"
    /\ IF args = <<>>
       THEN /\ h_msg' = "usage"
            /\ h_txid' = <<>>
            /\ UNCHANGED <<watched_tx, lists, watcher_objs>>
       ELSE LET txid == Strip(args[1])
            IN  /\ h_txid' = IF IsValidTxid(txid) THEN txid ELSE <<>>
                /\ IF ~IsValidTxid(txid)
                   THEN /\ h_msg' = "invalid"
                        /\ UNCHANGED <<watched_tx, lists, watcher_objs>>
                   ELSE IF txid \notin Keys(watched_tx)
                   THEN /\ h_msg' = "not_monitoring"
                        /\ UNCHANGED <<watched_tx, lists, watcher_objs>>
                   ELSE LET old    == lists[DictGet(watched_tx, txid)]
                            before == Len(old)
                            l      == FreshId(lists)
                            new    == WithoutChat(watcher_objs, old, chat_id)
                            after  == Len(new)
                            d1     == DictSet(watched_tx, txid, l)
                            d2     == IF after = 0 THEN DictDel(d1, txid) ELSE d1
                            ls1    == GcLists(HeapPut(lists, l, new), d2, Held)
                        IN  /\ watched_tx' = d2
                            /\ lists' = ls1
                            /\ watcher_objs' = GcWatchers(watcher_objs, ls1)
                            /\ h_msg' = IF before # after THEN "stopped"
                                                          ELSE "not_monitoring"
    /\ UNCHANGED <<confs, job_pc, jobLocals, job_exc, failures, watchHistory>>
    /\ UNCHANGED <<knapVars, genVars, clsVars, fetchVars, sweepVars, blockVars>>

\* lines 120, 126, 140, 253-271: the last reply of a handler returns or raises
FinalReplyReturns(ok) ==
    /\ h_pc = "final_reply"
    /\ JobSuspended
    /\ IF ok
       THEN /\ stopped' = IF h_msg = "stopped" THEN stopped \cup {<<h_chat, h_txid>>}
                                               ELSE stopped
            /\ UNCHANGED failures
       ELSE /\ failures < MaxFailures
            /\ failures' = failures + 1
            /\ UNCHANGED stopped
    /\ h_pc' = "idle"
    /\ h_chat' = 0
    /\ h_txid' = <<>>
    /\ h_msg' = ""
    /\ UNCHANGED <<watched_tx, lists, watcher_objs, confs, job_pc, jobLocals, job_exc,
                   commands, delivered, start_keys, visited>>
    /\ UNCHANGED <<knapVars, genVars, clsVars, fetchVars, sweepVars, blockVars>>

\* the job's locals once the inner loop is left
NoInner == /\ job_txid' = <<>>
           /\ job_watchers' = 0
           /\ w_pos' = 0

\* the end of a pass: its locals are gone
PassEnds ==
    /\ job_pc' = "idle"
    /\ to_remove' = <<>>
    /\ it_used' = 0
    /\ it_pos' = 0
    /\ it_len' = 0
    /\ NoInner
    /\ start_keys' = {}
    /\ visited' = {}

\* lines 157-159: the scheduler starts a pass; the iterator of
\* watched_tx.items() is created
JobStart ==
    /\ job_pc = "idle"
    /\ job_pc' = "for"
    /\ job_exc' = "none"
    /\ to_remove' = <<>>
    /\ it_used' = DictLen(watched_tx)
    /\ it_len' = DictLen(watched_tx)
    /\ it_pos' = 1
    /\ start_keys' = Keys(watched_tx)
    /\ visited' = {}
    /\ UNCHANGED <<watched_tx, lists, watcher_objs, confs, handlerVars, job_txid,
                   job_watchers, w_pos, commands, failures, delivered, stopped>>
    /\ UNCHANGED <<knapVars, genVars, clsVars, fetchVars, sweepVars, blockVars>>

\* line 159: the dict was changed while the pass was suspended and next()
\* raises RuntimeError, which nothing in check_confirmations catches
JobForRaises ==
    /\ job_pc = "for"
    /\ DictIterNext(watched_tx, it_used, it_pos, it_len)
          \in {"size_changed", "keys_changed"}
    /\ job_exc' = "RuntimeError"
    /\ PassEnds
    /\ UNCHANGED <<watched_tx, lists, watcher_objs, confs, handlerVars, commands,
                   failures, delivered, stopped>>
    /\ UNCHANGED <<knapVars, genVars, clsVars, fetchVars, sweepVars, blockVars>>

\* line 159: the iterator is exhausted
JobForEnds ==
    /\ job_pc = "for"
    /\ DictIterNext(watched_tx, it_used, it_pos, it_len) = "exhausted"
    /\ job_pc' = "remove"
    /\ UNCHANGED <<watched_tx, lists, watcher_objs, confs, handlerVars, jobLocals,
                   job_exc, commands, failures, watchHistory>>
    /\ UNCHANGED <<knapVars, genVars, clsVars, fetchVars, sweepVars, blockVars>>

\* lines 159-162: a txid whose watchers are all notified is marked
JobForMarks ==
    /\ job_pc = "for"
    /\ DictIterNext(watched_tx, it_used, it_pos, it_len) = "item"
    /\ LET k == DictIterSlot(watched_tx, it_pos)
       IN  /\ AllNotified(lists, watcher_objs, watched_tx[k].value)
           /\ to_remove' = Append(to_remove, watched_tx[k].key)
           /\ it_pos' = k + 1
           /\ it_len' = it_len - 1
           /\ visited' = visited \cup {watched_tx[k].key}
    /\ UNCHANGED <<watched_tx, lists, watcher_objs, confs, handlerVars, job_pc, it_used,
                   job_txid, job_watchers, w_pos, job_exc, commands, failures,
                   delivered, stopped, start_keys>>
    /\ UNCHANGED <<knapVars, genVars, clsVars, fetchVars, sweepVars, blockVars>>

\* lines 159-166: the confirmations of a txid with a watcher to notify are
\* looked up; with 6 or more the loop over its watchers starts
JobForChecks(resp) ==
    /\ job_pc = "for"
    /\ DictIterNext(watched_tx, it_used, it_pos, it_len) = "item"
    /\ LET k             == DictIterSlot(watched_tx, it_pos)
           txid          == watched_tx[k].key
           watchers      == watched_tx[k].value
           confirmations == GetConfirmations(resp)
       IN  /\ ~AllNotified(lists, watcher_objs, watchers)
           /\ resp \in TxResponses(confs[txid])
           /\ IF IsFailure(resp, confs[txid])
              THEN failures < MaxFailures /\ failures' = failures + 1
              ELSE UNCHANGED failures
           /\ it_pos' = k + 1
           /\ it_len' = it_len - 1
           /\ visited' = visited \cup {txid}
           /\ IF confirmations # None /\ confirmations.int >= 6
              THEN /\ job_pc' = "inner"
                   /\ job_txid' = txid
                   /\ job_watchers' = watchers
                   /\ w_pos' = 1
              ELSE UNCHANGED <<job_pc, job_txid, job_watchers, w_pos>>
    /\ UNCHANGED <<watched_tx, lists, watcher_objs, confs, handlerVars, to_remove,
                   it_used, job_exc, commands, delivered, stopped, start_keys>>
    /\ UNCHANGED <<knapVars, genVars, clsVars, fetchVars, sweepVars, blockVars>>

\* lines 166 and 177: the list iterator is exhausted; the list is released
InnerEnds ==
    /\ job_pc = "inner"
    /\ w_pos > Len(lists[job_watchers])
    /\ job_pc' = "for"
    /\ NoInner
    /\ lists' = GcLists(lists, watched_tx, {})
    /\ watcher_objs' = GcWatchers(watcher_objs, lists')
    /\ UNCHANGED <<watched_tx, confs, handlerVars, to_remove, it_used, it_pos, it_len,
                   job_exc, commands, failures, watchHistory>>
    /\ UNCHANGED <<knapVars, genVars, clsVars, fetchVars, sweepVars, blockVars>>

\* lines 166-167: a watcher already notified is passed over
InnerSkips ==
    /\ job_pc = "inner"
    /\ w_pos <= Len(lists[job_watchers])
    /\ watcher_objs[lists[job_watchers][w_pos]].notified
    /\ w_pos' = w_pos + 1
    /\ UNCHANGED <<watched_tx, lists, watcher_objs, confs, handlerVars, job_pc,
                   to_remove, it_used, it_pos, it_len, job_txid, job_watchers,
                   job_exc, commands, failures, watchHistory>>
    /\ UNCHANGED <<knapVars, genVars, clsVars, fetchVars, sweepVars, blockVars>>

\* lines 166-169: send_message is called for a watcher not yet notified and
\* the job is suspended
InnerSends ==
    /\ job_pc = "inner"
    /\ w_pos <= Len(lists[job_watchers])
    /\ ~watcher_objs[lists[job_watchers][w_pos]].notified
    /\ job_pc' = "await_send"
    /\ watcher_objs' =
          [watcher_objs EXCEPT ![lists[job_watchers][w_pos]].sent = @ + 1]
    /\ UNCHANGED <<watched_tx, lists, confs, handlerVars, jobLocals,
                   job_exc, commands, failures, watchHistory>>
    /\ UNCHANGED <<knapVars, genVars, clsVars, fetchVars, sweepVars, blockVars>>

\* lines 169-176: send_message returns or raises; either way the watcher is
\* marked notified
SendReturns(ok) ==
    /\ job_pc = "await_send"
    /\ LET w == lists[job_watchers][w_pos]
       IN  /\ IF ok
              THEN /\ delivered' = delivered \cup {<<watcher_objs[w].chat_id, job_txid>>}
                   /\ UNCHANGED failures
              ELSE /\ failures < MaxFailures
                   /\ failures' = failures + 1
                   /\ UNCHANGED delivered
           /\ watcher_objs' = [watcher_objs EXCEPT ![w].notified = TRUE]
    /\ w_pos' = w_pos + 1
    /\ job_pc' = "inner"
    /\ UNCHANGED <<watched_tx, lists, confs, handlerVars, to_remove, it_used, it_pos,
                   it_len, job_txid, job_watchers, job_exc, commands, stopped,
                   start_keys, visited>>
    /\ UNCHANGED <<knapVars, genVars, clsVars, fetchVars, sweepVars, blockVars>>

RECURSIVE DelAll(_, _)
\* lines 180-182: the marked txids are deleted in turn; del of a txid that is
\* no longer a key raises KeyError
DelAll(d, txids) ==
    IF txids = <<>> THEN [dict |-> d, exc |-> "none"]
    ELSE IF Head(txids) \notin Keys(d) THEN [dict |-> d, exc |-> "KeyError"]
    ELSE DelAll(DictDel(d, Head(txids)), Tail(txids))

\* lines 180-182: the removal phase, which ends the pass
JobRemoves ==
    /\ job_pc = "remove"
    /\ LET r == DelAll(watched_tx, to_remove)
       IN  /\ watched_tx' = r.dict
           /\ job_exc' = r.exc
           /\ lists' = GcLists(lists, r.dict, {})
           /\ watcher_objs' = GcWatchers(watcher_objs, lists')
    /\ PassEnds
    /\ UNCHANGED <<confs, handlerVars, commands, failures, delivered, stopped>>
    /\ UNCHANGED <<knapVars, genVars, clsVars, fetchVars, sweepVars, blockVars>>

JobStep ==
    \/ JobStart
    \/ JobForRaises
    \/ JobForEnds
    \/ JobForMarks
    \/ \E resp \in UNION {TxResponses(n) : n \in ConfLevels} : JobForChecks(resp)
    \/ InnerEnds
    \/ InnerSkips
    \/ InnerSends
    \/ \E ok \in BOOLEAN : SendReturns(ok)
    \/ JobRemoves

HandlerStep ==
    \/ \E chat_id \in Chats, text \in Texts : HandleInvalidText(chat_id, text)
    \/ \E chat_id \in Chats, text \in Texts :
          \E resp \in UNION {TxResponses(n) : n \in ConfLevels} :
              HandleTxid(chat_id, text, resp)
    \/ \E ok \in BOOLEAN : TxidReplyReturns(ok)
    \/ \E chat_id \in Chats, args \in RemoveArgs : Remove(chat_id, args)
    \/ \E ok \in BOOLEAN : FinalReplyReturns(ok)

NextWatch ==
    \/ \E t \in TxKeys : Confirm(t)
    \/ JobStep
    \/ HandlerStep

SpecWatch == InitWatch /\ [][NextWatch]_vars

\* the scheduler fires every 15 seconds, a suspended send_message returns or
\* raises, and so does a reply
FairSpecWatch ==
    /\ SpecWatch
    /\ WF_vars(JobStep)
    /\ WF_vars(\E ok \in BOOLEAN : TxidReplyReturns(ok) \/ FinalReplyReturns(ok))

----------------------------------------------------------------------------
(* Properties of the watch list *)

\* the chat is among the watchers of the txid
Registered(chat_id, txid) ==
    /\ txid \in Keys(watched_tx)
    /\ AnyChat(lists, watcher_objs, DictGet(watched_tx, txid), chat_id)

\* /remove has just taken the chat off the watchers of the txid
RemovedBy(chat_id, txid) ==
    /\ h_pc = "final_reply"
    /\ h_msg = "stopped"
    /\ h_chat = chat_id
    /\ h_txid = txid

\* C12 (as claimed): a chat that is among the watchers of a txid whose
\* transaction has 6 confirmations is eventually reached by the
\* 6-confirmation message, unless it removes the txid; the failures of
\* requests and sends are transient (at most MaxFailures of them happen).
C12_EventuallyDelivered ==
    \A chat_id \in Chats, txid \in TxKeys :
        [](Registered(chat_id, txid) /\ confs[txid] >= 6
              => <>(<<chat_id, txid>> \in delivered \/ RemovedBy(chat_id, txid)))

\* C13 (as claimed): once /remove has answered a chat "Stopped monitoring" for
\* a txid, and until the chat submits the txid again, the job starts no
\* 6-confirmation message for that txid to that chat.
C13_NoSendAfterStopped ==
    [][(job_pc = "inner" /\ job_pc' = "await_send")
          => <<watcher_objs[lists[job_watchers][w_pos]].chat_id, job_txid>>
                \notin stopped]_vars

\* C19 (as claimed): no pass of check_confirmations is ended by the
\* RuntimeError of a dict changed while it is iterated; a pass that reaches
\* its removal phase has visited every txid watched when it started.
C19_PassNeverAborted ==
    /\ job_exc # "RuntimeError"
    /\ job_pc = "remove" => start_keys \subseteq visited

\* the txids the removal phase is about to delete
AboutToDelete == Keys(watched_tx) \ Keys(DelAll(watched_tx, to_remove).dict)

\* C20 (as claimed): when the removal phase deletes a txid, every watcher the
\* txid has at that moment is notified.
C20_DeletesOnlyNotified ==
    job_pc = "remove" =>
        \A txid \in AboutToDelete :
            AllNotified(lists, watcher_objs, DictGet(watched_tx, txid))

\* the watcher list of a watched txid
WatchersOf(txid) == lists[DictGet(watched_tx, txid)]

\* C21: every watched txid has a non-empty watcher list that names each chat
\* at most once, and send_message is called at most once for each watcher
\* entry, that is, once per registration of a chat for a txid.
C21_WatchListWellFormed ==
    /\ \A txid \in Keys(watched_tx) :
          /\ WatchersOf(txid) # <<>>
          /\ \A j, k \in 1..Len(WatchersOf(txid)) :
                j # k => watcher_objs[WatchersOf(txid)[j]].chat_id
                            # watcher_objs[WatchersOf(txid)[k]].chat_id
    /\ \A w \in DOMAIN watcher_objs : watcher_objs[w].sent <= 1

\* C21 witness: a txid watched by two chats, both of which have been sent the
\* message, has been met again by a later pass, which marked it for removal
\* without sending anything.
C21_Witness ==
    /\ job_pc \in {"for", "remove"}
    /\ \E txid \in Keys(watched_tx) :
          /\ Len(WatchersOf(txid)) >= 2
          /\ \A k \in 1..Len(WatchersOf(txid)) :
                /\ watcher_objs[WatchersOf(txid)[k]].sent = 1
                /\ watcher_objs[WatchersOf(txid)[k]].notified
          /\ \E k \in 1..Len(to_remove) : to_remove[k] = txid

----------------------------------------------------------------------------
(* bot.py: notifyblocks, stopblocks and check_new_block, lines 142-204 *)

\* the chain height when the bot starts
StartHeight == 800000

Heights == StartHeight..(StartHeight + MaxBlocks)

\* what the request of check_new_block can meet at chain height h: an
\* exception, an error status, an empty list, the tip, or the tip of a
\* backend that is one block behind
BlockResponses(h) ==
    { [raises |-> TRUE],
      [raises |-> FALSE, status_code |-> 503],
      [raises |-> FALSE, status_code |-> 200, json |-> <<>>],
      [raises |-> FALSE, status_code |-> 200, json |-> <<[height |-> h]>>] }
    \cup (IF h > StartHeight
          THEN {[raises |-> FALSE, status_code |-> 200, json |-> <<[height |-> h - 1]>>]}
          ELSE {})

\* a response that keeps the chain tip from the job
IsBlockFailure(resp, h) ==
    \/ resp.raises
    \/ resp.status_code # 200
    \/ resp.json = <<>>
    \/ resp.json[1].height # h

\* what next() of a set iterator does (CPython's setiter_iternext): the size
\* test comes first, then the search of the table from the position on.  The
\* model's chat ids are small ints, which a set keeps at the slot of their
\* value.
SetIterNext(s, used, pos) ==
    IF used # Cardinality(s) THEN "size_changed"
    ELSE IF {c \in s : c >= pos} = {} THEN "exhausted"
    ELSE "item"

SetIterItem(s, pos) == CHOOSE c \in s : c >= pos /\ \A e \in s : e >= pos => c <= e

BlockJobSuspended == bjob_pc \in {"idle", "await_send"}

InitBlocks ==
    /\ SweepIdle
    /\ KnapIdle
    /\ GenIdle
    /\ ClsIdle
    /\ FetchIdle
    /\ WatchIdle
    \* load_state restores the subscribers of the last run
    /\ block_notify_users \in SUBSET Chats
    /\ last_block_height = None
    /\ chain_height = StartHeight
    /\ bjob_pc = "idle"
    /\ current_height = 0
    /\ sit_used = 0
    /\ sit_pos = 0
    /\ bh_pc = "idle"
    /\ block_commands = 0
    /\ block_failures = 0
    /\ block_sent = [c \in Chats |-> <<>>]
    /\ owed = {}

blockJobLocals == <<current_height, sit_used, sit_pos>>

\* the chain: a block is found; every chat subscribed at that moment is owed
\* its notification until it unsubscribes
Mine ==
    /\ chain_height < StartHeight + MaxBlocks
    /\ chain_height' = chain_height + 1
    /\ owed' = owed \cup {<<c, chain_height + 1>> : c \in block_notify_users}
    /\ UNCHANGED <<block_notify_users, last_block_height, bjob_pc, blockJobLocals,
                   bh_pc, block_commands, block_failures, block_sent>>
    /\ UNCHANGED <<knapVars, genVars, clsVars, fetchVars, sweepVars, watchVars>>

\* lines 142-146: notifyblocks up to its reply
NotifyBlocks(chat_id) ==
    /\ bh_pc = "idle"
    /\ BlockJobSuspended
    /\ block_commands < MaxCommands
    /\ block_commands' = block_commands + 1
    /\ block_notify_users' = block_notify_users \cup {chat_id}
    /\ bh_pc' = "reply"
    /\ UNCHANGED <<last_block_height, chain_height, bjob_pc, blockJobLocals,
                   block_failures, block_sent, owed>>
    /\ UNCHANGED <<knapVars, genVars, clsVars, fetchVars, sweepVars, watchVars>>

\* lines 148-155: stopblocks up to its reply
StopBlocks(chat_id) ==
    /\ bh_pc = "idle"
    /\ BlockJobSuspended
    /\ block_commands < MaxCommands
    /\ block_commands' = block_commands + 1
    /\ block_notify_users' = IF chat_id \in block_notify_users
                             THEN block_notify_users \ {chat_id}
                             ELSE block_notify_users
    /\ owed' = {p \in owed : p[1] # chat_id}
    /\ bh_pc' = "reply"
    /\ UNCHANGED <<last_block_height, chain_height, bjob_pc, blockJobLocals,
                   block_failures, block_sent>>
    /\ UNCHANGED <<knapVars, genVars, clsVars, fetchVars, sweepVars, watchVars>>

\* lines 146, 153, 155: the reply returns or raises
BlockReplyReturns ==
    /\ bh_pc = "reply"
    /\ BlockJobSuspended
    /\ bh_pc' = "idle"
    /\ UNCHANGED <<block_notify_users, last_block_height, chain_height, bjob_pc,
                   blockJobLocals, block_commands, block_failures, block_sent, owed>>
    /\ UNCHANGED <<knapVars, genVars, clsVars, fetchVars, sweepVars, watchVars>>

\* lines 184-194 and 202-204: a poll up to the loop over the subscribers.  An
\* exception of the request is logged; a height above the recorded one starts
\* the loop; any other height is recorded.
BlockPoll(resp) ==
    /\ bjob_pc = "idle"
    /\ resp \in BlockResponses(chain_height)
    /\ IF IsBlockFailure(resp, chain_height)
       THEN block_failures < MaxFailures /\ block_failures' = block_failures + 1
       ELSE UNCHANGED block_failures
    /\ IF resp.raises
       THEN UNCHANGED <<last_block_height, bjob_pc, blockJobLocals>>
       ELSE IF resp.status_code # 200 \/ resp.json = <<>>
       THEN UNCHANGED <<last_block_height, bjob_pc, blockJobLocals>>
       ELSE LET height == resp.json[1].height
            IN  IF last_block_height # None /\ height > last_block_height.int
                THEN /\ bjob_pc' = "for"
                     /\ current_height' = height
                     /\ sit_used' = Cardinality(block_notify_users)
                     /\ sit_pos' = 0
                     /\ UNCHANGED last_block_height
                ELSE /\ last_block_height' = PyInt(height)
                     /\ UNCHANGED <<bjob_pc, blockJobLocals>>
    /\ UNCHANGED <<block_notify_users, chain_height, bh_pc, block_commands,
                   block_sent, owed>>
    /\ UNCHANGED <<knapVars, genVars, clsVars, fetchVars, sweepVars, watchVars>>

\* lines 194 and 203-204: the set was changed while the job was suspended and
\* next() raises RuntimeError; the outer except logs it, and line 202 is not
\* reached
BlockForRaises ==
    /\ bjob_pc = "for"
    /\ SetIterNext(block_notify_users, sit_used, sit_pos) = "size_changed"
    /\ bjob_pc' = "idle"
    /\ current_height' = 0
    /\ sit_used' = 0
    /\ sit_pos' = 0
    /\ UNCHANGED <<block_notify_users, last_block_height, chain_height, bh_pc,
                   block_commands, block_failures, block_sent, owed>>
    /\ UNCHANGED <<knapVars, genVars, clsVars, fetchVars, sweepVars, watchVars>>

\* lines 194 and 202: the iterator is exhausted and the height is recorded
BlockForEnds ==
    /\ bjob_pc = "for"
    /\ SetIterNext(block_notify_users, sit_used, sit_pos) = "exhausted"
    /\ last_block_height' = PyInt(current_height)
    /\ bjob_pc' = "idle"
    /\ current_height' = 0
    /\ sit_used' = 0
    /\ sit_pos' = 0
    /\ UNCHANGED <<block_notify_users, chain_height, bh_pc, block_commands,
                   block_failures, block_sent, owed>>
    /\ UNCHANGED <<knapVars, genVars, clsVars, fetchVars, sweepVars, watchVars>>

\* lines 194-196: send_message is called for the next subscriber and the job
\* is suspended
BlockForSends ==
    /\ bjob_pc = "for"
    /\ SetIterNext(block_notify_users, sit_used, sit_pos) = "item"
    /\ sit_pos' = SetIterItem(block_notify_users, sit_pos)
    /\ bjob_pc' = "await_send"
    /\ UNCHANGED <<block_notify_users, last_block_height, chain_height,
                   current_height, sit_used, bh_pc, block_commands, block_failures,
                   block_sent, owed>>
    /\ UNCHANGED <<knapVars, genVars, clsVars, fetchVars, sweepVars, watchVars>>

\* lines 196-201: send_message returns or raises; the exception is logged
BlockSendReturns(ok) ==
    /\ bjob_pc = "await_send"
    /\ IF ok
       THEN /\ block_sent' = [block_sent EXCEPT ![sit_pos] = Append(@, current_height)]
            /\ UNCHANGED block_failures
       ELSE /\ block_failures < MaxFailures
            /\ block_failures' = block_failures + 1
            /\ UNCHANGED block_sent
    /\ sit_pos' = sit_pos + 1
    /\ bjob_pc' = "for"
    /\ UNCHANGED <<block_notify_users, last_block_height, chain_height,
                   current_height, sit_used, bh_pc, block_commands, owed>>
    /\ UNCHANGED <<knapVars, genVars, clsVars, fetchVars, sweepVars, watchVars>>

BlockJobStep ==
    \/ \E resp \in UNION {BlockResponses(h) : h \in Heights} : BlockPoll(resp)
    \/ BlockForRaises
    \/ BlockForEnds
    \/ BlockForSends
    \/ \E ok \in BOOLEAN : BlockSendReturns(ok)

NextBlocks ==
    \/ Mine
    \/ \E chat_id \in Chats : NotifyBlocks(chat_id)
    \/ \E chat_id \in Chats : StopBlocks(chat_id)
    \/ BlockReplyReturns
    \/ BlockJobStep

SpecBlocks == InitBlocks /\ [][NextBlocks]_vars

----------------------------------------------------------------------------
(* Properties of the block notifications *)

\* the chat was sent a notification of the height
NotifiedOf(chat_id, height) ==
    \E k \in 1..Len(block_sent[chat_id]) : block_sent[chat_id][k] = height

\* C14 (as claimed): whenever a poll has recorded a height and no request or
\* send has failed, every subscribed chat has been sent a notification of
\* each block up to that height that was found since it subscribed.
C14_NotifiedOfEveryBlock ==
    (bjob_pc = "idle" /\ last_block_height # None /\ block_failures = 0) =>
        \A chat_id \in block_notify_users, height \in Heights :
            (<<chat_id, height>> \in owed /\ height <= last_block_height.int)
                => NotifiedOf(chat_id, height)

\* the number of notifications of the height the chat was sent
TimesNotified(chat_id, height) ==
    Cardinality({k \in 1..Len(block_sent[chat_id]) : block_sent[chat_id][k] = height})

\* C22 (as claimed): a chat is sent at most one notification per block
\* height, whatever heights the polls meet and also after a pass that an
\* exception ended before the height was recorded; and until a first poll has
\* recorded a height nothing is sent.
C22_AtMostOncePerHeight ==
    /\ \A chat_id \in Chats, height \in Heights :
          TimesNotified(chat_id, height) <= 1
    /\ last_block_height = None =>
          (bjob_pc = "idle" /\ \A chat_id \in Chats : block_sent[chat_id] = <<>>)

====
